---- MODULE Spec2Model ----
(***************************************************************************)
(* A model of the Keno Number Picker's probability engine, payout          *)
(* calculator and draw-history ingestion.                                  *)
(*                                                                         *)
(* JavaScript numbers are IEEE-754 binary64 values.  The combinatorics of  *)
(* MathUtils.js is floating-point arithmetic on numbers as large as        *)
(* C(80,40), so the model carries binary64 values exactly: a value is a    *)
(* 53-bit significand and a binary exponent, and every operation rounds    *)
(* the exact result to nearest, ties to even, as the hardware does.        *)
(* Significands do not fit TLC's 32-bit integers, so naturals of arbitrary *)
(* size are sequences of base-2^15 digits, least significant first.        *)
(***************************************************************************)
EXTENDS Integers, Sequences, FiniteSets, TLC

(***************************************************************************)
(* Naturals of arbitrary size.  <<>> is zero; the last digit is never 0.   *)
(***************************************************************************)
Min(x, y) == IF x <= y THEN x ELSE y

Max(x, y) == IF x >= y THEN x ELSE y

\* digits are as wide as lets the product of two digits fit a 32-bit integer
LimbBits == 31 \div 2

Base == 2 ^ LimbBits

RECURSIVE BTrim(_)
BTrim(a) ==
    IF a = <<>> THEN a
    ELSE IF a[Len(a)] = 0 THEN BTrim(SubSeq(a, 1, Len(a) - 1)) ELSE a

RECURSIVE BOfInt(_)
BOfInt(n) == IF n = 0 THEN <<>> ELSE <<n % Base>> \o BOfInt(n \div Base)

BDigit(a, i) == IF i <= Len(a) THEN a[i] ELSE 0

RECURSIVE BAddC(_, _, _, _)
BAddC(a, b, i, c) ==
    IF i > Len(a) /\ i > Len(b)
    THEN (IF c = 0 THEN <<>> ELSE <<c>>)
    ELSE LET s == BDigit(a, i) + BDigit(b, i) + c
         IN  <<s % Base>> \o BAddC(a, b, i + 1, s \div Base)

BAdd(a, b) == BAddC(a, b, 1, 0)

\* a - b for a >= b
RECURSIVE BSubC(_, _, _, _)
BSubC(a, b, i, c) ==
    IF i > Len(a) THEN <<>>
    ELSE LET s == a[i] - BDigit(b, i) - c
         IN  IF s < 0 THEN <<s + Base>> \o BSubC(a, b, i + 1, 1)
                      ELSE <<s>> \o BSubC(a, b, i + 1, 0)

BSub(a, b) == BTrim(BSubC(a, b, 1, 0))

RECURSIVE BCmpAt(_, _, _)
BCmpAt(a, b, i) ==
    IF i = 0 THEN 0
    ELSE IF a[i] < b[i] THEN -1
    ELSE IF a[i] > b[i] THEN 1
    ELSE BCmpAt(a, b, i - 1)

\* -1, 0 or 1 as a < b, a = b or a > b
BCmp(a, b) ==
    IF Len(a) < Len(b) THEN -1
    ELSE IF Len(a) > Len(b) THEN 1
    ELSE BCmpAt(a, b, Len(a))

\* a * d + c for a digit d and a carry c below Base
RECURSIVE BMulSmallC(_, _, _, _)
BMulSmallC(a, d, i, c) ==
    IF i > Len(a) THEN (IF c = 0 THEN <<>> ELSE <<c>>)
    ELSE LET s == a[i] * d + c
         IN  <<s % Base>> \o BMulSmallC(a, d, i + 1, s \div Base)

BMulSmall(a, d) == IF d = 0 THEN <<>> ELSE BMulSmallC(a, d, 1, 0)

BShiftDigits(a, q) == IF a = <<>> THEN a ELSE [i \in 1..q |-> 0] \o a

RECURSIVE BMulAt(_, _, _)
BMulAt(a, b, i) ==
    IF i > Len(b) THEN <<>>
    ELSE LET rest == BMulAt(a, b, i + 1) IN
         IF rest = <<>> THEN BMulSmall(a, b[i])
         ELSE BAdd(BMulSmall(a, b[i]), <<0>> \o rest)

BMul(a, b) == BMulAt(a, b, 1)

\* quotient and remainder of a by a digit d, 0 < d < Base
RECURSIVE BDivSmallAt(_, _, _, _)
BDivSmallAt(a, d, i, r) ==
    IF i = 0 THEN [q |-> <<>>, r |-> r]
    ELSE LET cur == r * Base + a[i] IN
         IF cur < d
         THEN LET rest == BDivSmallAt(a, d, i - 1, cur)
              IN  [q |-> rest.q \o <<0>>, r |-> rest.r]
         ELSE LET rest == BDivSmallAt(a, d, i - 1, cur % d)
              IN  [q |-> rest.q \o <<cur \div d>>, r |-> rest.r]

BDivSmall(a, d) ==
    LET x == BDivSmallAt(a, d, Len(a), 0) IN [q |-> BTrim(x.q), r |-> x.r]

\* a * 2^k
BShl(a, k) == BShiftDigits(BMulSmall(a, 2 ^ (k % LimbBits)), k \div LimbBits)

\* floor(a / 2^k)
BShr(a, k) ==
    LET q == k \div LimbBits IN
    IF q >= Len(a) THEN <<>>
    ELSE BDivSmall(SubSeq(a, q + 1, Len(a)), 2 ^ (k % LimbBits)).q

RECURSIVE DigitLen(_)
DigitLen(d) == IF d = 0 THEN 0 ELSE 1 + DigitLen(d \div 2)

\* number of bits of a: the least L with a < 2^L
BBitLen(a) ==
    IF a = <<>> THEN 0 ELSE LimbBits * (Len(a) - 1) + DigitLen(a[Len(a)])

\* bit i of a, the units bit being bit 0
BBit(a, i) == (BDigit(a, i \div LimbBits + 1) \div 2 ^ (i % LimbBits)) % 2

\* a is a multiple of 2^k
BLowZero(a, k) ==
    /\ \A i \in 1..(k \div LimbBits) : BDigit(a, i) = 0
    /\ BDigit(a, k \div LimbBits + 1) % 2 ^ (k % LimbBits) = 0

\* the largest digit g with d * g <= r, which is est or a little less
RECURSIVE BDigitDown(_, _, _)
BDigitDown(r, d, est) ==
    IF BCmp(BMulSmall(d, est), r) <= 0 THEN est ELSE BDigitDown(r, d, est - 1)

\* the quotient digit of r by d, for d <= r < d * Base and the last digit of
\* d at least Base / 2: the quotient of the leading digits is the digit or
\* exceeds it by at most 2
BQuotientDigit(r, d) ==
    LET lead == IF Len(r) > Len(d) THEN r[Len(r)] * Base + r[Len(r) - 1]
                ELSE r[Len(r)]
    IN  BDigitDown(r, d, Min(lead \div d[Len(d)], Base - 1))

\* long division of the digits i..1 of n by d, r < d being the remainder of
\* the digits above them
RECURSIVE BDivAt(_, _, _, _)
BDivAt(n, d, i, r) ==
    IF i = 0 THEN [q |-> <<>>, r |-> r]
    ELSE LET cur == BTrim(<<n[i]>> \o r) IN
         IF BCmp(cur, d) < 0
         THEN LET rest == BDivAt(n, d, i - 1, cur)
              IN  [q |-> rest.q \o <<0>>, r |-> rest.r]
         ELSE LET g == BQuotientDigit(cur, d)
                  rest == BDivAt(n, d, i - 1, BSub(cur, BMulSmall(d, g)))
              IN  [q |-> rest.q \o <<g>>, r |-> rest.r]

\* quotient and remainder of n by d > 0.  Both are shifted to make the last
\* digit of the divisor at least Base / 2; the digits of n that cannot yet
\* hold the divisor start the remainder.
BDivMod(n, d) ==
    IF BCmp(n, d) < 0 THEN [q |-> <<>>, r |-> n]
    ELSE LET sh == LimbBits - DigitLen(d[Len(d)])
             nn == BShl(n, sh)
             dd == BShl(d, sh)
             i == Len(nn) - Len(dd) + 1
             x == BDivAt(nn, dd, i, SubSeq(nn, i + 1, Len(nn)))
         IN  [q |-> BTrim(x.q), r |-> BShr(x.r, sh)]

RECURSIVE BPow(_, _)
BPow(a, n) == IF n = 0 THEN <<1>> ELSE BMul(a, BPow(a, n - 1))

(***************************************************************************)
(* IEEE-754 binary64 values that are zero or positive and normal: the      *)
(* value of [m, e] is m * 2^e with 2^52 <= m < 2^53, and zero is DZero.    *)
(* The representation is unique, so equality of records is ===.            *)
(***************************************************************************)
\* 52 stored bits and the implicit leading bit
MantBits == 52 + 1

DZero == [m |-> <<>>, e |-> 0]

\* X * 2^e rounded to binary64; sticky says that a non-zero amount below
\* the units bit of X was discarded; mode is the rounding direction
DRound(X, e, sticky, mode) ==
    IF X = <<>> THEN DZero
    ELSE LET L == BBitLen(X) IN
         IF L <= MantBits
         THEN [m |-> BShl(X, MantBits - L), e |-> e - (MantBits - L)]
         ELSE LET sh == L - MantBits
                  q == BShr(X, sh)
                  half == BBit(X, sh - 1) = 1
                  low == sticky \/ ~BLowZero(X, sh - 1)
                  up == CASE mode = "even" -> half /\ (low \/ q[1] % 2 = 1)
                          [] mode = "down" -> FALSE
                          [] mode = "up" -> half \/ low
                  q1 == IF up THEN BAdd(q, <<1>>) ELSE q
              IN  IF BBitLen(q1) > MantBits
                  THEN [m |-> BShr(q1, 1), e |-> e + sh + 1]
                  ELSE [m |-> q1, e |-> e + sh]

DOfNat(X) == DRound(X, 0, FALSE, "even")

DOfInt(n) == DOfNat(BOfInt(n))

DOne == DOfInt(1)

DIsZero(a) == a.m = <<>>

\* -1, 0 or 1 as a < b, a = b or a > b
DCmp(a, b) ==
    IF DIsZero(a) THEN (IF DIsZero(b) THEN 0 ELSE -1)
    ELSE IF DIsZero(b) THEN 1
    ELSE IF a.e < b.e THEN -1
    ELSE IF a.e > b.e THEN 1
    ELSE BCmp(a.m, b.m)

DLess(a, b) == DCmp(a, b) < 0

DLeq(a, b) == DCmp(a, b) <= 0

DMul(a, b) ==
    IF DIsZero(a) \/ DIsZero(b) THEN DZero
    ELSE DRound(BMul(a.m, b.m), a.e + b.e, FALSE, "even")

\* the low 45 bits of a significand are zero: it is d * 2^45 for a digit d
DivisorShift == 3 * LimbBits

DDiv(a, b) ==
    IF DIsZero(a) THEN DZero
    ELSE IF BLowZero(b.m, DivisorShift)
    THEN LET x == BDivSmall(BShl(a.m, 2 * LimbBits), b.m[4])
         IN  DRound(x.q, a.e - b.e - DivisorShift - 2 * LimbBits, x.r # 0, "even")
    ELSE LET x == BDivMod(BShl(a.m, MantBits + 2), b.m)
         IN  DRound(x.q, a.e - b.e - (MantBits + 2), x.r # <<>>, "even")

DAdd(a, b) ==
    IF DIsZero(a) THEN b
    ELSE IF DIsZero(b) THEN a
    ELSE LET e == Min(a.e, b.e)
         IN  DRound(BAdd(BShl(a.m, a.e - e), BShl(b.m, b.e - e)), e, FALSE, "even")

\* a - b for a >= b
DSub(a, b) ==
    IF DIsZero(b) THEN a
    ELSE LET e == Min(a.e, b.e)
         IN  DRound(BSub(BShl(a.m, a.e - e), BShl(b.m, b.e - e)), e, FALSE, "even")

\* Math.round of a non-negative number: the nearest integer, halves upwards
MathRound(x) ==
    IF DIsZero(x) \/ x.e >= 0 THEN x
    ELSE LET sh == 0 - x.e
             q == BShr(x.m, sh)
             half == IF sh - 1 < MantBits THEN BBit(x.m, sh - 1) ELSE 0
         IN  DOfNat(IF half = 1 THEN BAdd(q, <<1>>) ELSE q)

\* Math.pow(x, n) for x >= 0 and an integer n >= 0.  ECMAScript leaves the
\* accuracy of Math.pow to the implementation; engines return a result
\* less than one unit in the last place from x^n, and x itself for n = 1:
\* the set holds the binary64 values on either side of the exact power.
MathPow(x, n) ==
    IF n = 0 THEN {DOne}
    ELSE IF DIsZero(x) THEN {DZero}
    ELSE IF n = 1 THEN {x}
    ELSE { DRound(BPow(x.m, n), x.e * n, FALSE, mode) : mode \in {"down", "up"} }

(***************************************************************************)
(* MathUtils.js: combinations and hypergeometric probabilities.            *)
(***************************************************************************)
totalNumbers == 80

numbersDrawn == 20

\* The loop of combinations, iterations lo..hi in order, entered with the
\* running product result: result *= (n - i + 1) / i.  The range is halved
\* so that the evaluation nests log(k) deep rather than k deep; the
\* multiplications happen in the order of the loop.  (A zero product stays
\* zero; the product is never zero here.)
RECURSIVE combinationsLoop(_, _, _, _)
combinationsLoop(result, n, lo, hi) ==
    IF DIsZero(result) \/ lo > hi THEN result
    ELSE IF lo = hi THEN DMul(result, DDiv(DOfInt(n - lo + 1), DOfInt(lo)))
    ELSE LET mid == (lo + hi) \div 2
             head == combinationsLoop(result, n, lo, mid)
         IN  IF head.m = <<>> THEN head
             ELSE combinationsLoop(head, n, mid + 1, hi)

combinations(n, k) ==
    IF k > n THEN DZero
    ELSE IF k = 0 \/ k = n THEN DOne
    ELSE IF k < 0 THEN DZero
    ELSE MathRound(combinationsLoop(DOne, n, 1, k))

\* probabilityOfHitting dividing by the number of draws, C(poolSize,
\* drawSize), instead of the number of tickets
probabilityOfHittingPerDraw(matches, spotCount, poolSize, drawSize) ==
    IF matches > spotCount THEN DZero
    ELSE IF matches > drawSize THEN DZero
    ELSE IF spotCount > poolSize THEN DZero
    ELSE IF spotCount - matches > poolSize - drawSize THEN DZero
    ELSE LET numerator == DMul(combinations(drawSize, matches),
                               combinations(poolSize - drawSize, spotCount - matches))
             denominator == combinations(poolSize, drawSize)
         IN  IF DIsZero(denominator) THEN DZero
             ELSE DDiv(numerator, denominator)

\* probabilityOfHitting with its last guard one too wide: no probability for
\* a ticket whose misses are all the numbers not drawn
probabilityOfHittingShortRange(matches, spotCount, poolSize, drawSize) ==
    IF matches > spotCount THEN DZero
    ELSE IF matches > drawSize THEN DZero
    ELSE IF spotCount > poolSize THEN DZero
    ELSE IF spotCount - matches >= poolSize - drawSize THEN DZero
    ELSE LET numerator == DMul(combinations(drawSize, matches),
                               combinations(poolSize - drawSize, spotCount - matches))
             denominator == combinations(poolSize, spotCount)
         IN  IF DIsZero(denominator) THEN DZero
             ELSE DDiv(numerator, denominator)

probabilityOfHitting(matches, spotCount, poolSize, drawSize) ==
    IF matches > spotCount THEN DZero
    ELSE IF matches > drawSize THEN DZero
    ELSE IF spotCount > poolSize THEN DZero
    ELSE IF spotCount - matches > poolSize - drawSize THEN DZero
    ELSE LET numerator == DMul(combinations(drawSize, matches),
                               combinations(poolSize - drawSize, spotCount - matches))
             denominator == combinations(poolSize, spotCount)
         IN  IF DIsZero(denominator) THEN DZero
             ELSE DDiv(numerator, denominator)

\* probabilityAcrossGames from its second statement on, singleGameProb being
\* the value of its call of probabilityOfHitting: the values it can return,
\* one for each value Math.pow can return
probabilityAcrossGamesOf(singleGameProb, numGames) ==
    { DSub(DOne, probNone) :
        probNone \in MathPow(DSub(DOne, singleGameProb), numGames) }

probabilityAcrossGames(matches, spotCount, numGames, poolSize, drawSize) ==
    probabilityAcrossGamesOf(
        probabilityOfHitting(matches, spotCount, poolSize, drawSize), numGames)

(***************************************************************************)
(* The page script (part_000): its own probability functions and the       *)
(* payout calculator.                                                      *)
(***************************************************************************)
\* A JavaScript number that may be NaN, and a value that may be absent
\* (null, undefined, the empty value of a select without options): <<>> is
\* NaN or absent, <<x>> is x.
NaN == <<>>

Num(x) == <<x>>

IsNaN(v) == v = NaN

\* the binary64 value nearest to n / d: what JSON.parse and parseFloat make
\* of a decimal text whose value is n / d
Rat(n, d) == DDiv(DOfInt(n), DOfInt(d))

\* Number.isInteger of a non-negative number
DIsInteger(x) == DIsZero(x) \/ x.e >= 0 \/ BLowZero(x.m, 0 - x.e)

\* the inner function combinations of the script's probabilityOfHitting:
\* the running product is returned as it is, and a negative k passes both
\* tests and skips the loop
scriptCombinations(n, k) ==
    IF k > n THEN DZero
    ELSE IF k = 0 \/ k = n THEN DOne
    ELSE combinationsLoop(DOne, n, 1, k)

scriptProbabilityOfHitting(matches, spotCount) ==
    LET numerator == DMul(scriptCombinations(numbersDrawn, matches),
                          scriptCombinations(totalNumbers - numbersDrawn,
                                             spotCount - matches))
        denominator == scriptCombinations(totalNumbers, spotCount)
    IN  IF DIsZero(denominator) THEN DZero
        ELSE IF matches > spotCount THEN DZero
        ELSE IF matches > numbersDrawn THEN DZero
        ELSE IF spotCount > totalNumbers THEN DZero
        ELSE DDiv(numerator, denominator)

\* the values the script's probabilityAcrossGames can return, one for each
\* value Math.pow can return
scriptProbabilityAcrossGames(matches, spotCount, numGames) ==
    { DSub(DOne, probNone) :
        probNone \in MathPow(DSub(DOne, scriptProbabilityOfHitting(matches, spotCount)),
                             numGames) }

\* Object.keys of an object whose keys are canonical integers: ascending
\* numeric order, whatever the order of insertion
RECURSIVE IntegerKeys(_)
IntegerKeys(S) ==
    IF S = {} THEN <<>>
    ELSE LET least == CHOOSE x \in S : \A y \in S : x <= y
         IN  <<least>> \o IntegerKeys(S \ {least})

\* Array.prototype.reverse
RECURSIVE Reverse(_)
Reverse(s) == IF s = <<>> THEN <<>> ELSE Reverse(Tail(s)) \o <<Head(s)>>

\* data/payoutData.json as readData('payoutData') returns it: for each game
\* its denominations, <<n, d>> for the decimal n / d, and for each spot
\* count the base payout of each paying number of matches
PayoutData ==
    [ regular |->
        [ denominations |-> [dollar |-> <<1, 1>>, minimumBet |-> <<1, 1>>],
          payouts |-> (1 :> (1 :> 3))
                      @@ (4 :> ((2 :> 1) @@ (3 :> 5) @@ (4 :> 120))) ],
      quarter |->
        [ denominations |-> [dollar |-> <<1, 4>>, minimumBet |-> <<1, 2>>],
          payouts |-> (3 :> ((2 :> 1) @@ (3 :> 10)))
                      @@ (20 :> ((0 :> 50) @@ (20 :> 25000))) ] ]

\* the test with || where the script has &&: a bet is rejected when either
\* amount is below the minimum
betRejectedEither(bet, games, minimumBet) ==
    \/ IsNaN(bet)
    \/ DIsZero(bet[1])
    \/ DLess(bet[1], minimumBet)
    \/ /\ ~IsNaN(games)
       /\ DLess(DMul(bet[1], DOfInt(games[1])), minimumBet)

\* the test of the if statement of calculatePotentialPayouts:
\* !betAmount || betAmount < minimumBet && betAmount * numGames < minimumBet
\* (a comparison with NaN is false)
betRejected(bet, games, minimumBet) ==
    \/ IsNaN(bet)
    \/ DIsZero(bet[1])
    \/ /\ DLess(bet[1], minimumBet)
       /\ ~IsNaN(games)
       /\ DLess(DMul(bet[1], DOfInt(games[1])), minimumBet)

\* the tiers without the reverse()
payoutTiersAscending(payouts) == IntegerKeys(DOMAIN payouts)

\* the order in which calculatePotentialPayouts goes through the tiers of
\* payouts: Object.entries(payouts).reverse()
payoutTiers(payouts) == Reverse(IntegerKeys(DOMAIN payouts))

\* the literal 1e-3
Milli == Rat(1, 1000)

\* the condition under which a tier shows the probability across games
acrossGames(games) == ~IsNaN(games) /\ games[1] > 1

\* one pass of the forEach callback of calculatePotentialPayouts: the
\* values it computes for a tier, one for each value Math.pow can return.
\* The line of HTML it appends is "Hit matches: $payout Probability: p%",
\* payout printed as it is when integer and with toFixed(2) otherwise, p
\* printed with toExponential(2) when exponential and as
\* (probability * 100).toFixed(2) otherwise.
payoutEntries(matches, basePayout, spot, bet, games, dollar) ==
    LET payout == DDiv(DMul(DOfInt(basePayout), bet), dollar)
        probs == IF acrossGames(games)
                 THEN scriptProbabilityAcrossGames(matches, spot, games[1])
                 ELSE {scriptProbabilityOfHitting(matches, spot)}
    IN  { [matches |-> matches,
           payout |-> payout,
           integer |-> DIsInteger(payout),
           probability |-> p,
           exponential |-> DLess(p, Milli)] : p \in probs }

\* the sequences of entries the forEach can append for the tiers ms
RECURSIVE payoutLines(_, _, _, _, _, _)
payoutLines(ms, payouts, spot, bet, games, dollar) ==
    IF ms = <<>> THEN {<<>>}
    ELSE { <<h>> \o t :
             h \in payoutEntries(Head(ms), payouts[Head(ms)], spot, bet, games, dollar),
             t \in payoutLines(Tail(ms), payouts, spot, bet, games, dollar) }

(***************************************************************************)
(* Draw histories.  A data file data/<location>.json is an object          *)
(*     date -> (game number -> numbers).                                   *)
(* jsonData is what readData makes of it: absent (null) when the file      *)
(* could not be read, else the sequence of <<date, games>> in the order of *)
(* the text, games being the sequence of <<game number, numbers>> in the   *)
(* order of the text.  A date is the ordinal of its day, a game number the *)
(* integer its key spells.  Date keys are not canonical integers, so that  *)
(* Object.keys returns them in the order of insertion; game numbers are,   *)
(* so that Object.keys returns them in ascending order.                    *)
(***************************************************************************)
Range(s) == {s[i] : i \in DOMAIN s}

\* Object.keys of the games of a date
gameKeys(games) == IntegerKeys({g[1] : g \in Range(games)})

\* games[gameNumber]
gameStats(games, gameNumber) ==
    (CHOOSE g \in Range(games) : g[1] = gameNumber)[2]

\* the forEach over the dates of the script's processKenoData, dates being
\* Object.keys(jsonData).reverse() with their games
RECURSIVE scriptFlatten(_)
scriptFlatten(dates) ==
    IF dates = <<>> THEN <<>>
    ELSE LET games == Head(dates)[2]
             keys == gameKeys(games)
         IN  [i \in 1..Len(keys) |->
                 [kenoGameNumber |-> keys[i],
                  kenoGameStats |-> gameStats(games, keys[i])]]
             \o scriptFlatten(Tail(dates))

\* the game stored under its own game number
reformatKeyGameNumber(game, index) == game.kenoGameNumber

\* the key under which the script's processKenoData stores a game
reformatKey(game, index) == index + 1

\* the second forEach of the script's processKenoData from index on:
\* reformattedData[index + 1] = game.kenoGameStats
RECURSIVE reformat(_, _, _)
reformat(flattened, index, reformatted) ==
    IF index >= Len(flattened) THEN reformatted
    ELSE LET game == flattened[index + 1]
         IN  reformat(flattened, index + 1,
                      (reformatKey(game, index) :> game.kenoGameStats)
                          @@ reformatted)

\* the script's processKenoData after its readData: null for no data
scriptProcessKenoData(json) ==
    IF json = <<>> THEN <<>>
    ELSE <<reformat(scriptFlatten(Reverse(json[1])), 0, <<>>)>>

\* an element of a numbers array is the text that parseInt converts, a
\* sequence of characters
DigitChars == <<"0", "1", "2", "3", "4", "5", "6", "7", "8", "9">>

IsDigit(c) == \E i \in DOMAIN DigitChars : DigitChars[i] = c

DigitValue(c) == (CHOOSE i \in DOMAIN DigitChars : DigitChars[i] = c) - 1

RECURSIVE skipSpaces(_)
skipSpaces(text) ==
    IF text # <<>> /\ Head(text) = " " THEN skipSpaces(Tail(text)) ELSE text

\* the value of the longest prefix of digits of text, after acc
RECURSIVE digitsValue(_, _)
digitsValue(text, acc) ==
    IF text = <<>> \/ ~IsDigit(Head(text)) THEN acc
    ELSE digitsValue(Tail(text), 10 * acc + DigitValue(Head(text)))

\* parseInt(text, 10): leading blanks and a sign are skipped, the digits
\* that follow are the value, NaN when there is none
parseInt(text) ==
    LET t == skipSpaces(text)
        signed == t # <<>> /\ Head(t) \in {"-", "+"}
        body == IF signed THEN Tail(t) ELSE t
    IN  IF body = <<>> \/ ~IsDigit(Head(body)) THEN NaN
        ELSE IF signed /\ Head(t) = "-" THEN Num(0 - digitsValue(body, 0))
        ELSE Num(digitsValue(body, 0))

\* Array.isArray(numbers) ? numbers.map(num => parseInt(num, 10)) : []
parseNumbers(numbers) ==
    IF numbers.array
    THEN [i \in 1..Len(numbers.items) |-> parseInt(numbers.items[i])]
    ELSE <<>>

\* the forEach over the dates of DataLoader.processKenoData
RECURSIVE loaderFlatten(_)
loaderFlatten(dates) ==
    IF dates = <<>> THEN <<>>
    ELSE LET date == Head(dates)[1]
             games == Head(dates)[2]
             keys == gameKeys(games)
         IN  [i \in 1..Len(keys) |->
                 [date |-> date,
                  gameNumber |-> keys[i],
                  numbers |-> parseNumbers(gameStats(games, keys[i]))]]
             \o loaderFlatten(Tail(dates))

\* the comparator of the sort of DataLoader.processKenoData is negative:
\* a goes before b
newerFirst(a, b) ==
    IF a.date # b.date THEN b.date - a.date < 0
    ELSE b.gameNumber - a.gameNumber < 0

\* x put into the sorted sequence s behind every element that does not go
\* after it
RECURSIVE sortInsert(_, _)
sortInsert(s, x) ==
    IF s = <<>> THEN <<x>>
    ELSE IF newerFirst(x, Head(s)) THEN <<x>> \o s
    ELSE <<Head(s)>> \o sortInsert(Tail(s), x)

\* Array.prototype.sort with that comparator, a stable sort
RECURSIVE sortGames(_, _)
sortGames(s, sorted) ==
    IF s = <<>> THEN sorted ELSE sortGames(Tail(s), sortInsert(sorted, Head(s)))

\* DataLoader.processKenoData
processKenoData(json) ==
    IF json = <<>> THEN <<>>
    ELSE sortGames(loaderFlatten(json[1]), <<>>)

(***************************************************************************)
(* Draw statistics.  locationsData[location] is the parsed current-day     *)
(* file of a location, an object game number -> numbers: absent (null or   *)
(* undefined) or <<games>>, games being the sequence of <<game number,     *)
(* numbers>> in the order of the text.  The numbers of a game are an       *)
(* array of texts, the numerals of the numbers drawn; a text is a sequence *)
(* of characters.  A Map is the sequence of its <<key, value>> entries in  *)
(* the order of insertion; the result of Map.prototype.get is absent       *)
(* (undefined) or <<value>>.                                               *)
(***************************************************************************)
\* items lo..hi of a forEach in order, callback(acc, i) being the state
\* after item i entered with the state acc.  The range is halved so that
\* the evaluation nests log deep; the test of head makes its evaluation
\* precede that of the second half.
RECURSIVE forEach(_, _, _, _)
forEach(callback(_, _), lo, hi, acc) ==
    IF lo > hi THEN acc
    ELSE IF lo = hi THEN callback(acc, lo)
    ELSE LET mid == (lo + hi) \div 2
             head == forEach(callback, lo, mid, acc)
         IN  IF head = <<>> /\ mid < lo THEN head
             ELSE forEach(callback, mid + 1, hi, head)

mapHas(map, key) == \E i \in DOMAIN map : map[i][1] = key

mapGet(map, key) ==
    IF mapHas(map, key)
    THEN <<map[CHOOSE i \in DOMAIN map : map[i][1] = key][2]>>
    ELSE <<>>

\* Map.prototype.set: the value of an entry is replaced where it is, a new
\* entry goes last
mapSet(map, key, value) ==
    IF mapHas(map, key)
    THEN [map EXCEPT ![CHOOSE i \in DOMAIN map : map[i][1] = key] = <<key, value>>]
    ELSE Append(map, <<key, value>>)

\* value || 0 for the result of a get of counts
orZero(value) == IF value = <<>> THEN 0 ELSE value[1]

\* x put into the sorted sequence s behind every element that does not go
\* after it, before(a, b) being: the comparator is negative for (a, b)
RECURSIVE sortedInsert(_, _, _)
sortedInsert(before(_, _), s, x) ==
    IF s = <<>> THEN <<x>>
    ELSE IF before(x, Head(s)) THEN <<x>> \o s
    ELSE <<Head(s)>> \o sortedInsert(before, Tail(s), x)

\* Array.prototype.sort with a comparator, a stable sort
RECURSIVE sortWith(_, _, _)
sortWith(before(_, _), s, sorted) ==
    IF s = <<>> THEN sorted
    ELSE sortWith(before, Tail(s), sortedInsert(before, sorted, Head(s)))

\* Object.values of a location's data: the numbers of its games in
\* ascending order of the game numbers
objectValues(games) ==
    LET keys == gameKeys(games)
    IN  [i \in 1..Len(keys) |-> gameStats(games, keys[i])]

\* Object.entries(locationData).sort((a, b) => Number(b[0]) - Number(a[0])),
\* without the keys: the numbers of the games in descending order of the
\* game numbers, which are distinct
gamesDescending(games) == Reverse(objectValues(games))

\* the comparator b[1] - a[1] of getNumberCounts is negative
countBefore(a, b) == b[2] - a[2] < 0

\* the sort of getNumberCounts keeping the entries in their order
unsortedCounts(entries) == entries

\* Array.from(numberCounts.entries()).sort((a, b) => b[1] - a[1])
sortedCounts(entries) == sortWith(countBefore, entries, <<>>)

\* the script's getNumberCounts(location): null without data, else
\* <<counts>>
getNumberCounts(locationData) ==
    IF locationData = <<>> THEN <<>>
    ELSE LET values == objectValues(locationData[1])
             count(numberCounts, g) ==
                 IF values[g].array
                 THEN LET set(counts, i) ==
                              mapSet(counts, values[g].items[i],
                                     orZero(mapGet(counts, values[g].items[i])) + 1)
                      IN  forEach(set, 1, Len(values[g].items), numberCounts)
                 ELSE numberCounts
             entries == sortedCounts(forEach(count, 1, Len(values), <<>>))
         IN  << [i \in 1..Len(entries) |->
                    [number |-> entries[i][1], count |-> entries[i][2]]] >>

\* the body of DataLoader.getNumberCounts after its loadCurrent: the keys
\* of the Map are the results of parseInt
loaderNumberCounts(data) ==
    IF data = <<>> THEN <<>>
    ELSE LET values == objectValues(data[1])
             count(numberCounts, g) ==
                 IF values[g].array
                 THEN LET set(counts, i) ==
                              LET num == parseInt(values[g].items[i])
                              IN  mapSet(counts, num, orZero(mapGet(counts, num)) + 1)
                      IN  forEach(set, 1, Len(values[g].items), numberCounts)
                 ELSE numberCounts
             entries == sortWith(countBefore, forEach(count, 1, Len(values), <<>>), <<>>)
         IN  [i \in 1..Len(entries) |->
                 [number |-> entries[i][1], count |-> entries[i][2]]]

\* every character of text is a digit
RECURSIVE allDigits(_)
allDigits(text) == text = <<>> \/ (IsDigit(Head(text)) /\ allDigits(Tail(text)))

\* Number(text) for a text without blanks: 0 for the empty text, the value
\* of a decimal numeral with or without a sign, NaN for any other text
Number(text) ==
    IF text = <<>> THEN Num(0)
    ELSE IF allDigits(text) THEN Num(digitsValue(text, 0))
    ELSE IF Head(text) \in {"-", "+"} /\ Tail(text) # <<>> /\ allDigits(Tail(text))
    THEN (IF Head(text) = "-" THEN Num(0 - digitsValue(Tail(text), 0))
          ELSE Num(digitsValue(Tail(text), 0)))
    ELSE NaN

\* Array.prototype.slice(0, end)
sliceTo(s, end) ==
    SubSeq(s, 1, IF end < 0 THEN Max(Len(s) + end, 0) ELSE Min(end, Len(s)))

\* Array.prototype.slice(start) for start >= 0
sliceFrom(s, start) == SubSeq(s, Min(start, Len(s)) + 1, Len(s))

\* flatMap(([_, numbers]) => numbers) over games whose numbers are arrays
RECURSIVE flatNumbers(_)
flatNumbers(games) ==
    IF games = <<>> THEN <<>> ELSE Head(games).items \o flatNumbers(Tail(games))

\* forEach(num => counts.set(num, (counts.get(num) || 0) + weight)) over the
\* numbers of the games, entered with counts
countWeighted(games, weight, counts) ==
    LET count(numberCounts, g) ==
            LET set(acc, i) ==
                    mapSet(acc, games[g].items[i],
                           orZero(mapGet(acc, games[g].items[i])) + weight)
            IN  forEach(set, 1, Len(games[g].items), numberCounts)
    IN  forEach(count, 1, Len(games), counts)

\* the comparator b.momentum - a.momentum is negative
momentumBefore(a, b) == DLess(b.momentum, a.momentum)

\* analyzeRecentTrends with the window measured from the oldest game
oldestGames(games, windowSize) == sliceTo(Reverse(games), windowSize)

\* the games of the window of analyzeRecentTrends, games being in
\* descending order of the game numbers
recentGames(games, windowSize) == sliceTo(games, windowSize)

\* analyzeRecentTrends(location, windowSize) for windowSize # 0
analyzeRecentTrends(locationData, windowSize) ==
    IF locationData = <<>> THEN <<>>
    ELSE LET window == recentGames(gamesDescending(locationData[1]), windowSize)
             numbers == <<[array |-> TRUE, items |-> flatNumbers(window)]>>
             recentCounts == countWeighted(numbers, 1, <<>>)
             trends == [i \in 1..Len(recentCounts) |->
                          [number |-> Number(recentCounts[i][1]),
                           recentFrequency |-> recentCounts[i][2],
                           momentum |-> DDiv(DOfInt(recentCounts[i][2]),
                                             DOfInt(windowSize))]]
         IN  <<sortWith(momentumBefore, trends, <<>>)>>

\* the numbers for which analyzeNumberGaps initializes currentGaps
gapNumbers == 80

\* a JavaScript Number that may be NaN or an Infinity
NotANumber == [kind |-> "NaN", value |-> DZero]

Infinite == [kind |-> "Infinity", value |-> DZero]

Finite(x) == [kind |-> "finite", value |-> x]

\* gaps.reduce((sum, gap) => sum + gap, 0) / gaps.length for a non-empty
\* list of gaps, each absent (undefined) or <<gap>>: NaN when a gap is
\* undefined
averageOf(gaps) ==
    IF \E i \in DOMAIN gaps : gaps[i] = <<>> THEN NotANumber
    ELSE LET add(sum, i) == <<sum[1] + gaps[i][1]>>
         IN  Finite(DDiv(DOfInt(forEach(add, 1, Len(gaps), <<0>>)[1]),
                         DOfInt(Len(gaps))))

\* currentGap / avgGap, currentGap being absent (undefined) or <<gap>>
ratioOf(currentGap, avgGap) ==
    IF currentGap = <<>> \/ avgGap.kind = "NaN" THEN NotANumber
    ELSE IF DIsZero(avgGap.value)
    THEN (IF currentGap[1] = 0 THEN NotANumber ELSE Infinite)
    ELSE Finite(DDiv(DOfInt(currentGap[1]), avgGap.value))

\* the comparator b.gapRatio - a.gapRatio is negative: a difference with a
\* NaN, and that of two Infinities, is NaN
ratioBefore(a, b) ==
    /\ a.gapRatio.kind # "NaN" /\ b.gapRatio.kind # "NaN"
    /\ \/ a.gapRatio.kind = "Infinity" /\ b.gapRatio.kind = "finite"
       \/ /\ a.gapRatio.kind = "finite" /\ b.gapRatio.kind = "finite"
          /\ DLess(b.gapRatio.value, a.gapRatio.value)

\* currentGaps.get(key) for a key that is a Number: the Map has the keys
\* 1..gapNumbers that are Numbers, its other keys are texts
gapOfNumber(currentGaps, key) ==
    IF ~IsNaN(key) /\ key[1] \in 1..gapNumbers THEN <<currentGaps[1][key[1]]>>
    ELSE <<>>

\* the callback of games.forEach of analyzeNumberGaps.  The state is
\* <<currentGaps, gapAnalysis>>, currentGaps being <<gaps of the keys
\* 1..gapNumbers, entries of the keys that are texts>>.  (<<>> \o f is the
\* sequence f with its elements evaluated, once each.)
scanGaps(state, numbers) ==
    LET incremented ==
            << << <<>> \o [n \in 1..gapNumbers |-> state[1][1][n] + 1],
                  <<>> \o [i \in DOMAIN state[1][2] |->
                              <<state[1][2][i][1], state[1][2][i][2] + 1>>] >>,
               state[2] >>
        reset(acc, i) ==
            LET num == numbers.items[i]
                gap == mapGet(acc[1][2], num)
                gaps == mapGet(acc[2], num)
            IN  << <<acc[1][1], mapSet(acc[1][2], num, 0)>>,
                   mapSet(acc[2], num,
                          (IF gaps = <<>> THEN <<>> ELSE gaps[1]) \o <<gap>>) >>
    IN  forEach(reset, 1, Len(numbers.items), incremented)

\* analyzeNumberGaps(location)
analyzeNumberGaps(locationData) ==
    IF locationData = <<>> THEN <<>>
    ELSE LET games == gamesDescending(locationData[1])
             scan(state, g) == scanGaps(state, games[g])
             final == forEach(scan, 1, Len(games),
                              << <<[n \in 1..gapNumbers |-> 0], <<>> >>, <<>> >>)
             gapAnalysis == final[2]
             records ==
                 [i \in 1..Len(gapAnalysis) |->
                     LET number == Number(gapAnalysis[i][1])
                         avgGap == averageOf(gapAnalysis[i][2])
                     IN  [number |-> number,
                          currentGap |-> gapOfNumber(final[1], number),
                          averageGap |-> avgGap,
                          gapRatio |-> ratioOf(gapOfNumber(final[1], number), avgGap)]]
         IN  <<sortWith(ratioBefore, records, <<>>)>>

\* the games that analyzeHotColdPatterns takes for recent
recentWindow == 20

\* nums.includes(value) for a value that is a Number: the numbers of a game
\* are texts and no text is the same value as a Number
includesNumber(numbers, value) == FALSE

\* the comparator b.weightedScore - a.weightedScore is negative
scoreBefore(a, b) == b.weightedScore - a.weightedScore < 0

\* the older games of analyzeHotColdPatterns counted as the recent ones
olderWeightAsRecent(recentWeight) == recentWeight

\* the weight of an occurrence in an older game
olderWeight(recentWeight) == 1

\* analyzeHotColdPatterns(location, recentWeight)
analyzeHotColdPatterns(locationData, recentWeight) ==
    IF locationData = <<>> THEN <<>>
    ELSE LET games == gamesDescending(locationData[1])
             recent == sliceTo(games, recentWindow)
             older == sliceFrom(games, recentWindow)
             numberAnalysis ==
                 countWeighted(older, olderWeight(recentWeight),
                               countWeighted(recent, recentWeight, <<>>))
             patterns ==
                 [i \in 1..Len(numberAnalysis) |->
                     [number |-> Number(numberAnalysis[i][1]),
                      weightedScore |-> numberAnalysis[i][2],
                      recentPerformance |->
                          DDiv(DOfInt(Cardinality(
                                   {g \in 1..Len(recent) :
                                       includesNumber(recent[g],
                                                      Number(numberAnalysis[i][1]))})),
                               DOfInt(recentWindow))]]
         IN  <<sortWith(scoreBefore, patterns, <<>>)>>

\* numbers.includes(num) for a text num
includes(numbers, num) == \E i \in DOMAIN numbers.items : numbers.items[i] = num

\* the comparator b.maxStreak - a.maxStreak is negative
streakBefore(a, b) == b.maxStreak - a.maxStreak < 0

\* analyzeStreaks without the reset of the streaks of the missing numbers
keepStreaks(streaks, numbers) == streaks

\* streaks.forEach((streak, num) =>
\*     { if (!numbers.includes(num)) streak.current = 0; })
resetStreaks(streaks, numbers) ==
    <<>> \o [i \in DOMAIN streaks |->
                IF includes(numbers, streaks[i][1])
                THEN streaks[i]
                ELSE <<streaks[i][1], [current |-> 0, max |-> streaks[i][2].max]>>]

\* analyzeStreaks(location)
analyzeStreaks(locationData) ==
    IF locationData = <<>> THEN <<>>
    ELSE LET games == objectValues(locationData[1])
             scan(streaks, g) ==
                 LET run(acc, i) ==
                         LET num == games[g].items[i]
                             streak == IF mapHas(acc, num) THEN mapGet(acc, num)[1]
                                       ELSE [current |-> 0, max |-> 0]
                         IN  mapSet(acc, num,
                                    [current |-> streak.current + 1,
                                     max |-> Max(streak.current + 1, streak.max)])
                 IN  resetStreaks(forEach(run, 1, Len(games[g].items), streaks),
                                  games[g])
             final == forEach(scan, 1, Len(games), <<>>)
             records == [i \in 1..Len(final) |->
                            [number |-> final[i][1], maxStreak |-> final[i][2].max]]
         IN  <<sortWith(streakBefore, records, <<>>)>>

\* the key of a pair built without sorting it
unsortedPairKey(num1, num2) == num1 \o <<"-">> \o num2

\* [num1, num2].sort((a, b) => a - b).join('-') for two numerals: the
\* comparator subtracts the Numbers of the texts
pairKey(num1, num2) ==
    IF Number(num1)[1] - Number(num2)[1] > 0
    THEN num2 \o <<"-">> \o num1
    ELSE num1 \o <<"-">> \o num2

\* String.prototype.split('-')
RECURSIVE split(_, _)
split(text, part) ==
    IF text = <<>> THEN <<part>>
    ELSE IF Head(text) = "-" THEN <<part>> \o split(Tail(text), <<>>)
    ELSE split(Tail(text), Append(part, Head(text)))

\* the comparator b.frequency - a.frequency is negative
frequencyBefore(a, b) == b.frequency - a.frequency < 0

\* the callback of games.forEach of analyzeNumberCoOccurrence and of
\* analyzeNumberCoOccurrenceOfAllData for the array numbers
countPairs(coOccurrenceMap, numbers) ==
    LET first(acc, i) ==
            LET second(map, j) ==
                    LET key == pairKey(numbers[i], numbers[j])
                    IN  mapSet(map, key, orZero(mapGet(map, key)) + 1)
            IN  forEach(second, i + 1, Len(numbers), acc)
    IN  forEach(first, 1, Len(numbers), coOccurrenceMap)

\* the return statement of both functions
pairFrequencies(coOccurrenceMap) ==
    LET pairs == [i \in 1..Len(coOccurrenceMap) |->
                     LET texts == split(coOccurrenceMap[i][1], <<>>)
                     IN  [pair |-> [k \in 1..Len(texts) |-> Number(texts[k])],
                          frequency |-> coOccurrenceMap[i][2]]]
    IN  sortWith(frequencyBefore, pairs, <<>>)

\* analyzeNumberCoOccurrence(location)
analyzeNumberCoOccurrence(locationData) ==
    IF locationData = <<>> THEN <<>>
    ELSE LET games == objectValues(locationData[1])
             count(map, g) == countPairs(map, games[g].items)
         IN  <<pairFrequencies(forEach(count, 1, Len(games), <<>>))>>

\* Object.values of what the script's processKenoData returned: the games
\* in ascending order of their keys, which are 1..N
reformattedValues(reformatted) ==
    LET keys == IntegerKeys(DOMAIN reformatted)
    IN  [i \in 1..Len(keys) |-> reformatted[keys[i]]]

\* game.numbers: absent (undefined) for a game that is an array, or an
\* object without that property
gameNumbers(game) == IF "numbers" \in DOMAIN game THEN game.numbers ELSE <<>>

\* analyzeNumberCoOccurrenceOfAllData(location)
analyzeNumberCoOccurrenceOfAllData(locationData) ==
    IF locationData = <<>> THEN <<>>
    ELSE LET games == reformattedValues(locationData[1])
             count(map, g) ==
                 IF gameNumbers(games[g]) = <<>> \/ ~gameNumbers(games[g])[1].array
                 THEN map
                 ELSE countPairs(map, gameNumbers(games[g])[1].items)
         IN  <<pairFrequencies(forEach(count, 1, Len(games), <<>>))>>

\* the numeral of a natural number
RECURSIVE numeral(_)
numeral(n) ==
    IF n < 10 THEN <<DigitChars[n + 1]>>
    ELSE numeral(n \div 10) \o <<DigitChars[(n % 10) + 1]>>

\* the natural number of the digits a
RECURSIVE BToInt(_)
BToInt(a) == IF a = <<>> THEN 0 ELSE a[1] + Base * BToInt(Tail(a))

\* the integer n for which n / 10^digits - x is nearest to zero, the larger
\* of two such n: what Number.prototype.toFixed prints of a Number x >= 0
roundedAt(x, digits) ==
    IF DIsZero(x) THEN 0
    ELSE IF x.e >= 0 THEN BToInt(BShl(BMulSmall(x.m, 10 ^ digits), x.e))
    ELSE BToInt(BShr(BAdd(BMulSmall(x.m, 2 * 10 ^ digits), BShl(<<1>>, 0 - x.e)),
                     1 - x.e))

\* the numeral of n with zeros before it up to a length of width
RECURSIVE padded(_, _)
padded(text, width) ==
    IF Len(text) >= width THEN text ELSE padded(<<"0">> \o text, width)

\* the text of the integer n of 10^-digits: the point before its last
\* digits
fixedText(n, digits) ==
    LET all == padded(numeral(n), digits + 1)
    IN  IF digits = 0 THEN all
        ELSE SubSeq(all, 1, Len(all) - digits) \o <<".">>
                 \o SubSeq(all, Len(all) - digits + 1, Len(all))

\* x.toFixed(digits) for a Number x that is NaN, Infinity or finite, not
\* negative and below 10^21
toFixed(x, digits) ==
    IF x.kind = "NaN" THEN <<"N", "a", "N">>
    ELSE IF x.kind = "Infinity" THEN <<"I", "n", "f", "i", "n", "i", "t", "y">>
    ELSE fixedText(roundedAt(x.value, digits), digits)

\* Number(text) for a text that toFixed made
NumberOfFixed(text) ==
    IF \E i \in DOMAIN text : text[i] = "."
    THEN LET point == CHOOSE i \in DOMAIN text : text[i] = "."
             whole == SubSeq(text, 1, point - 1)
             part == SubSeq(text, point + 1, Len(text))
         IN  IF allDigits(whole) /\ allDigits(part) /\ whole # <<>> /\ part # <<>>
             THEN Finite(Rat(digitsValue(whole \o part, 0), 10 ^ Len(part)))
             ELSE NotANumber
    ELSE IF text # <<>> /\ allDigits(text) THEN Finite(DOfInt(digitsValue(text, 0)))
    ELSE IF text = <<"I", "n", "f", "i", "n", "i", "t", "y">> THEN Infinite
    ELSE NotANumber

\* Array.prototype.join('-')
RECURSIVE join(_)
join(texts) ==
    IF texts = <<>> THEN <<>>
    ELSE IF Len(texts) = 1 THEN texts[1]
    ELSE texts[1] \o <<"-">> \o join(Tail(texts))

\* the comparator (a, b) => a - b is negative for two numerals
numberBefore(a, b) == Number(a)[1] - Number(b)[1] < 0

\* [gameNumbers[i], gameNumbers[j], gameNumbers[k]].sort((a, b) => a - b)
\* .join('-')
comboKey(a, b, c) == join(sortWith(numberBefore, <<a, b, c>>, <<>>))

\* the three nested for loops of analyzeNumberCombinations over the numbers
\* of a game
countCombinations(combinationCounts, numbers) ==
    LET first(acc1, i) ==
            LET second(acc2, j) ==
                    LET third(acc3, k) ==
                            LET key == comboKey(numbers[i], numbers[j],
                                                numbers[k])
                            IN  mapSet(acc3, key, orZero(mapGet(acc3, key)) + 1)
                    IN  forEach(third, j + 1, Len(numbers), acc2)
            IN  forEach(second, i + 1, Len(numbers) - 1, acc1)
    IN  forEach(first, 1, Len(numbers) - 2, combinationCounts)

\* item.number === num for the number of an entry of getNumberCounts, a
\* text of the data file, and a Number: a string is not strictly equal to a
\* Number
strictEquals(itemNumber, num) == FALSE

\* locationsData[location + 'Counts'].find(item => item.number === num)
\* ?.count || 0
individualCount(counts, num) ==
    IF \E i \in DOMAIN counts : strictEquals(counts[i].number, num)
    THEN counts[CHOOSE i \in DOMAIN counts :
                    /\ strictEquals(counts[i].number, num)
                    /\ \A j \in 1..(i - 1) : ~strictEquals(counts[j].number, num)].count
    ELSE 0

\* the comparator of the sort of analyzeNumberCombinations is negative
comboBefore(a, b) ==
    IF b.count # a.count THEN b.count - a.count < 0
    ELSE b.individualScore - a.individualScore < 0

\* how many combinations analyzeNumberCombinations returns
topCombinations == 10

\* Object.values(games).forEach(numbers => ...): the counts of the
\* combinations of three numbers of every game that is an array
countGames(games) ==
    LET count(map, g) ==
            IF games[g].array THEN countCombinations(map, games[g].items) ELSE map
    IN  forEach(count, 1, Len(games), <<>>)

\* combo.split('-').map(Number) of the key of a combination
comboNumbers(texts) == [k \in 1..Len(texts) |-> Number(texts[k])]

\* nums.reduce((sum, num) => sum + individualCounts.find(...).count, 0)
individualScore(nums, counts) ==
    LET add(sum, k) == <<sum[1] + individualCount(counts[1], nums[k])>>
    IN  forEach(add, 1, Len(nums), <<0>>)[1]

\* the entry { numbers, count, individualScore } of one combination
comboOf(nums, count, counts) ==
    [numbers |-> nums, count |-> count,
     individualScore |-> individualScore(nums, counts)]

\* Array.from(combinationCounts.entries()).map(...)
combosOf(combinationCounts, counts) ==
    [i \in 1..Len(combinationCounts) |->
        comboOf(comboNumbers(split(combinationCounts[i][1], <<>>)),
                combinationCounts[i][2], counts)]

\* .sort(...).slice(0, 10)
topOf(combos) == sliceTo(sortWith(comboBefore, <<>> \o combos, <<>>), topCombinations)

\* .map(combo => ({ numbers, occurrences, confidence, avgIndividualFrequency }))
formatted(top, totalGames) ==
    [i \in 1..Len(top) |->
        [numbers |-> top[i].numbers,
         occurrences |-> top[i].count,
         confidence |->
             toFixed(Finite(DMul(DDiv(DOfInt(top[i].count), DOfInt(totalGames)),
                                 DOfInt(100))), 2),
         avgIndividualFrequency |->
             toFixed(Finite(DDiv(DOfInt(top[i].individualScore), DOfInt(3))), 2)]]

\* the combinations of the counted triples: getNumberCounts returned null
\* when counts is absent, and find of null throws a TypeError
rankCombinations(combinationCounts, totalGames, counts) ==
    IF combinationCounts # <<>> /\ counts = <<>>
    THEN [threw |-> TRUE, value |-> <<>>]
    ELSE [threw |-> FALSE,
          value |-> <<formatted(topOf(combosOf(combinationCounts, counts)),
                                totalGames)>>]

\* analyzeNumberCombinations and analyzeNumberCombinationsOfAllData from
\* their forEach on: games are Object.values(locationData), totalGames is
\* Object.keys(locationData).length and counts is
\* locationsData[location + 'Counts'], null (<<>>) or <<entries>>.  find
\* of null throws a TypeError.
combinationsOf(games, totalGames, counts) ==
    rankCombinations(countGames(games), totalGames, counts)

\* analyzeNumberCombinations(location), the counts being those that
\* loadData stored for the location
analyzeNumberCombinations(locationData, counts) ==
    IF locationData = <<>> THEN [threw |-> FALSE, value |-> <<>>]
    ELSE combinationsOf(objectValues(locationData[1]),
                        Len(gameKeys(locationData[1])), counts)

\* analyzeNumberCombinationsOfAllData(location): the counts are those of the
\* current-day data
analyzeNumberCombinationsOfAllData(locationData, counts) ==
    IF locationData = <<>> THEN [threw |-> FALSE, value |-> <<>>]
    ELSE combinationsOf(reformattedValues(locationData[1]),
                        Cardinality(DOMAIN locationData[1]), counts)

\* Math.max() of no values
NegativeInfinite == [kind |-> "-Infinity", value |-> DZero]

\* a / b for two Numbers that are NaN, Infinity or finite and not negative
divide(a, b) ==
    IF a.kind = "NaN" \/ b.kind = "NaN" THEN NotANumber
    ELSE IF a.kind = "Infinity" THEN (IF b.kind = "Infinity" THEN NotANumber ELSE Infinite)
    ELSE IF b.kind = "Infinity" THEN Finite(DZero)
    ELSE IF DIsZero(b.value) THEN (IF DIsZero(a.value) THEN NotANumber ELSE Infinite)
    ELSE Finite(DDiv(a.value, b.value))

\* a * b for such Numbers
times(a, b) ==
    IF a.kind = "NaN" \/ b.kind = "NaN" THEN NotANumber
    ELSE IF a.kind = "Infinity" \/ b.kind = "Infinity"
    THEN (IF (a.kind = "finite" /\ DIsZero(a.value)) \/ (b.kind = "finite" /\ DIsZero(b.value))
          THEN NotANumber ELSE Infinite)
    ELSE Finite(DMul(a.value, b.value))

\* a + b for such Numbers
plus(a, b) ==
    IF a.kind = "NaN" \/ b.kind = "NaN" THEN NotANumber
    ELSE IF a.kind = "Infinity" \/ b.kind = "Infinity" THEN Infinite
    ELSE Finite(DAdd(a.value, b.value))

\* b - a < 0 for such Numbers: false when the difference is NaN
lessThan(b, a) ==
    IF a.kind = "NaN" \/ b.kind = "NaN" THEN FALSE
    ELSE IF b.kind = "Infinity" THEN FALSE
    ELSE IF a.kind = "Infinity" THEN TRUE
    ELSE DLess(b.value, a.value)

\* Math.max(...scores): NaN if one of them is NaN, -Infinity of none
mathMax(scores) ==
    IF scores = <<>> THEN NegativeInfinite
    ELSE IF \E i \in DOMAIN scores : scores[i].kind = "NaN" THEN NotANumber
    ELSE scores[CHOOSE i \in DOMAIN scores :
                    \A j \in DOMAIN scores : ~lessThan(scores[i], scores[j])]

\* value || 0 without the falsy NaN
numberOrZeroKeepingNaN(value) == IF value = <<>> THEN Finite(DZero) ELSE value[1]

\* value || 0 for a Number or undefined (<<>>): NaN and 0 are falsy
numberOrZero(value) ==
    IF value = <<>> THEN Finite(DZero)
    ELSE IF value[1].kind = "NaN" THEN Finite(DZero)
    ELSE value[1]

\* normalizeScores(array, scoreKey), numbers and scores being item.number
\* and item[scoreKey] of the items of array
normalizeScores(numbers, scores) ==
    LET max == mathMax(scores)
    IN  [i \in DOMAIN numbers |->
            [number |-> numbers[i], score |-> divide(scores[i], max)]]

\* data.forEach(({ number, score }) => combinedScores.set(number,
\* (combinedScores.get(number) || 0) + score * weight))
addWeighted(combinedScores, data, weight) ==
    LET set(map, i) ==
            mapSet(map, data[i].number,
                   plus(numberOrZero(mapGet(map, data[i].number)),
                        times(data[i].score, Finite(weight))))
    IN  forEach(set, 1, Len(data), combinedScores)

\* the weights of generatePredictions
trendWeight == Rat(2, 5)

gapWeight == Rat(3, 10)

hotColdWeight == Rat(3, 10)

\* the windowSize and the recentWeight that generatePredictions leaves to
\* their defaults
defaultWindowSize == 10

defaultRecentWeight == 2

\* how many predictions generatePredictions returns
topPredictions == 10

\* the comparator b.score - a.score of generatePredictions is negative,
\* the scores being texts
predictionBefore(a, b) == lessThan(NumberOfFixed(b.score), NumberOfFixed(a.score))

\* the indexes of the entries of array for number
indexesOf(array, number) == {i \in DOMAIN array : array[i].number = number}

\* the index that array.find(item => item.number === number) stops at
findIndex(array, number) ==
    CHOOSE i \in indexesOf(array, number) : \A j \in indexesOf(array, number) : i <= j

\* normalizeScores(recentTrends, 'momentum')
normalizedTrends(recentTrends) ==
    normalizeScores([i \in DOMAIN recentTrends |-> recentTrends[i].number],
                    [i \in DOMAIN recentTrends |-> Finite(recentTrends[i].momentum)])

\* normalizeScores(gapAnalysis, 'gapRatio')
normalizedGaps(gapAnalysis) ==
    normalizeScores([i \in DOMAIN gapAnalysis |-> gapAnalysis[i].number],
                    [i \in DOMAIN gapAnalysis |-> gapAnalysis[i].gapRatio])

\* normalizeScores(hotCold, 'weightedScore')
normalizedHotCold(hotCold) ==
    normalizeScores([i \in DOMAIN hotCold |-> hotCold[i].number],
                    [i \in DOMAIN hotCold |-> Finite(DOfInt(hotCold[i].weightedScore))])

\* the Map combinedScores after the three forEach
combinedScoresOf(recentTrends, gapAnalysis, hotCold) ==
    addWeighted(
        addWeighted(
            addWeighted(<<>>, <<>> \o normalizedTrends(recentTrends), trendWeight),
            <<>> \o normalizedGaps(gapAnalysis), gapWeight),
        <<>> \o normalizedHotCold(hotCold), hotColdWeight)

\* the entry of one number of combinedScores
predictionOf(number, score, recentTrends, gapAnalysis, hotCold) ==
    [number |-> number,
     score |-> toFixed(score, 3),
     confidence |-> toFixed(times(score, Finite(DOfInt(100))), 1) \o <<"%">>,
     recentTrend |->
         IF indexesOf(recentTrends, number) = {} THEN Finite(DZero)
         ELSE Finite(recentTrends[findIndex(recentTrends, number)].momentum),
     gapAnalysis |->
         IF indexesOf(gapAnalysis, number) = {} THEN Finite(DZero)
         ELSE numberOrZero(<<gapAnalysis[findIndex(gapAnalysis, number)].gapRatio>>),
     hotColdScore |->
         IF indexesOf(hotCold, number) = {} THEN 0
         ELSE hotCold[findIndex(hotCold, number)].weightedScore]

\* Array.from(combinedScores.entries()).map(...)
predictionsOf(combinedScores, recentTrends, gapAnalysis, hotCold) ==
    [i \in 1..Len(combinedScores) |->
        predictionOf(combinedScores[i][1], combinedScores[i][2],
                     recentTrends, gapAnalysis, hotCold)]

\* generatePredictions from normalizeScores on
predict(recentTrends, gapAnalysis, hotCold) ==
    sliceTo(sortWith(predictionBefore,
                     <<>> \o predictionsOf(
                                 combinedScoresOf(recentTrends, gapAnalysis, hotCold),
                                 recentTrends, gapAnalysis, hotCold),
                     <<>>),
            topPredictions)

\* generatePredictions(location): array.map of null throws a TypeError
generatePredictions(locationData) ==
    IF locationData = <<>> THEN [threw |-> TRUE, value |-> <<>>]
    ELSE [threw |-> FALSE,
          value |-> <<predict(
                        analyzeRecentTrends(locationData, defaultWindowSize)[1],
                        analyzeNumberGaps(locationData)[1],
                        analyzeHotColdPatterns(locationData, defaultRecentWeight)[1])>>]

(***************************************************************************)
(* State.  The combinatorics functions are pure: their state is the        *)
(* activation of a caller that evaluates them over a range of arguments.   *)
(***************************************************************************)
VARIABLES
    cn,     \* combinations: the argument n
    ck,     \* combinations: the argument k of the latest call
    crow,   \* combinations: the results for k = -CombSlack .. ck, in order
    pN,     \* probabilityOfHitting: totalNumbers (the pool size)
    pD,     \* probabilityOfHitting: numbersDrawn (the draw size)
    pS,     \* probabilityOfHitting: spotCount
    pM,     \* probabilityOfHitting: matches of the latest call
    pres,   \* probabilityOfHitting: the result of the latest call
    psum,   \* the caller's sum of the results over the possible matches
    pG,     \* probabilityAcrossGames: numGames of the latest call, 0 before it
    pacross, \* probabilityAcrossGames: the result of the latest call
    currentPayoutData, \* the script's currentPayoutData: absent (null) or
                       \* <<game>> for the table PayoutData[game]
    pendingPayoutLoads, \* the games whose readData('payoutData') is under way
    spotOptions,   \* the option values of the select 'spot-count', in order
    spotCountValue,     \* the value of the select: absent ("") or <<spot>>
    betAmountValue,     \* parseFloat of the value of the input 'bet-amount'
    gameAmountValue,      \* parseInt of the value of the input 'game-amount'
    payoutResults, \* what the div 'payout-results' shows
    payPc,         \* calculatePotentialPayouts: "idle" before it is called,
                   \* then "returned" or "threw"
    jsonData,      \* the parsed data file of a location, or absent
    reformattedData, \* the value the script's processKenoData returned
    scriptPc,      \* the script's processKenoData: "idle" or "returned"
    flattenedData, \* the value DataLoader.processKenoData returned
    loaderPc,      \* DataLoader.processKenoData: "idle" or "returned"
    currentData,   \* locationsData[location]: absent or <<games>>
    allData,       \* allDataFromLocations[location]: absent or <<object>>
    countsCache,   \* DataLoader's cache.counts[location]: absent or <<counts>>
    statsCall,     \* the analyzer called on the current-day data, or "none"
    statsArg,      \* its windowSize or recentWeight argument, 0 without
    statsResult,   \* what it returned: absent (null) or <<result>>
    allDataPc,     \* analyzeNumberCoOccurrenceOfAllData: "idle" or "returned";
                   \* "combinations" after analyzeNumberCombinationsOfAllData
    allDataResult, \* what it returned: absent (null) or <<result>>
    thrown,        \* the analyzers that threw a TypeError
    cache,         \* DataLoader's cache: current and allData of a location,
                   \* payouts; absent or <<data>>
    loading,       \* DataLoader's loading: the sets current and allData of
                   \* locations, the flag payouts
    calls          \* the calls of the loader: what was called, where it is
                   \* ("idle", "fetching", "waiting", "returned"), the data
                   \* or the counts it resolved with

combVars == <<cn, ck, crow>>

probVars == <<pN, pD, pS, pM, pres, psum, pG, pacross>>

payVars ==
    <<currentPayoutData, pendingPayoutLoads, spotOptions, spotCountValue,
      betAmountValue, gameAmountValue, payoutResults, payPc>>

ingestVars == <<jsonData, reformattedData, scriptPc, flattenedData, loaderPc>>

statsVars ==
    <<currentData, allData, countsCache, statsCall, statsArg, statsResult,
      allDataPc, allDataResult, thrown>>

loadVars == <<cache, loading, calls>>

vars == <<combVars, probVars, payVars, ingestVars, statsVars, loadVars>>

\* how far k runs below 0 and beyond n
CombSlack == 1

CombIdle == cn = 0 /\ ck = 0 /\ crow = <<>>

ProbIdle ==
    /\ pN = 0 /\ pD = 0 /\ pS = 0 /\ pM = 0
    /\ pres = DZero /\ psum = DZero /\ pG = 0 /\ pacross = DZero

\* the page before the payout calculator is opened: no payout data, a
\* select without options, empty inputs, an empty results div
PayIdle ==
    /\ currentPayoutData = <<>> /\ pendingPayoutLoads = <<>>
    /\ spotOptions = <<>> /\ spotCountValue = <<>>
    /\ betAmountValue = NaN /\ gameAmountValue = NaN
    /\ payoutResults = [kind |-> "empty", entries |-> <<>>]
    /\ payPc = "idle"

IngestIdle ==
    /\ jsonData = <<>> /\ reformattedData = <<>> /\ scriptPc = "idle"
    /\ flattenedData = <<>> /\ loaderPc = "idle"

\* the page before loadData has stored anything
StatsIdle ==
    /\ currentData = <<>> /\ allData = <<>> /\ countsCache = <<>>
    /\ statsCall = "none" /\ statsArg = 0 /\ statsResult = <<>>
    /\ allDataPc = "idle" /\ allDataResult = <<>>
    /\ thrown = {}

\* how many calls of the loader are under way or kept after their return
MaxCalls == 2

Calls == 1..MaxCalls

\* the location of the calls
Locations == {"location"}

\* the cache of the constructor; an absent value is <<>>, a value v is <<v>>
emptyCache ==
    [current |-> [l \in Locations |-> <<>>],
     allData |-> [l \in Locations |-> <<>>],
     payouts |-> <<>>]

\* a call that has not been made
noCall ==
    [op |-> "none", type |-> "none", location |-> "none", forceReload |-> FALSE,
     pc |-> "idle", ticks |-> 0, result |-> <<>>, counts |-> <<>>,
     awaited |-> <<>>]

LoadIdle ==
    /\ cache = emptyCache
    /\ loading = [current |-> {}, allData |-> {}, payouts |-> FALSE]
    /\ calls = [c \in Calls |-> noCall]

CombInit == cn \in 0..totalNumbers /\ ck = 0 - CombSlack - 1 /\ crow = <<>>

\* the caller evaluates combinations(cn, k) for the next k
CombCall ==
    /\ ck < cn + CombSlack
    /\ ck' = ck + 1
    /\ crow' = Append(crow, combinations(cn, ck'))
    /\ cn' = cn

InitComb == CombInit /\ ProbIdle /\ PayIdle /\ IngestIdle /\ StatsIdle /\ LoadIdle

NextComb == CombCall /\ UNCHANGED <<probVars, payVars, ingestVars, statsVars, loadVars>>

SpecComb == InitComb /\ [][NextComb]_vars

(***************************************************************************)
(* A caller of probabilityOfHitting: for a pool, a draw size and a spot    *)
(* count it asks for the probability of 0, 1, 2, ... matches in turn and   *)
(* adds up the probabilities of the possible numbers of matches; for any   *)
(* of them it may ask for the probability across several games.           *)
(***************************************************************************)
\* pools 0..SmallPool are taken with every draw size, beside the game's own
SmallPool == 5

\* how far spotCount and matches run beyond their valid range
ProbSlack == 1

\* the largest numGames
MaxGames == 2

PoolConfigs ==
    {<<totalNumbers, numbersDrawn>>}
        \cup {c \in (0..SmallPool) \X (0..SmallPool) : c[2] <= c[1]}

\* the least and the greatest possible number of matches
MinMatches(s, N, D) == Max(0, s - (N - D))

MaxMatches(s, D) == Min(s, D)

ProbInit ==
    /\ \E c \in PoolConfigs : pN = c[1] /\ pD = c[2]
    /\ pS \in 0..(pN + ProbSlack)
    /\ pM = -1
    /\ pres = DZero /\ psum = DZero /\ pG = 0 /\ pacross = DZero

\* probabilityOfHitting(pM + 1, pS, pN, pD)
ProbCall ==
    /\ pG = 0
    /\ pM < MaxMatches(pS, pD) + ProbSlack
    /\ pM' = pM + 1
    /\ pres' = probabilityOfHitting(pM', pS, pN, pD)
    /\ psum' = IF MinMatches(pS, pN, pD) <= pM' /\ pM' <= MaxMatches(pS, pD)
               THEN DAdd(psum, pres') ELSE psum
    /\ UNCHANGED <<pN, pD, pS, pG, pacross>>

\* probabilityAcrossGames(pM, pS, numGames, pN, pD).  Its call of
\* probabilityOfHitting has the arguments of the latest ProbCall, a pure
\* function of them, so that its value is pres.
AcrossCall ==
    /\ pG = 0
    /\ pM >= 0
    /\ \E numGames \in 1..MaxGames :
          /\ pG' = numGames
          /\ pacross' \in probabilityAcrossGamesOf(pres, numGames)
    /\ UNCHANGED <<pN, pD, pS, pM, pres, psum>>

InitProb == ProbInit /\ CombIdle /\ PayIdle /\ IngestIdle /\ StatsIdle /\ LoadIdle

NextProb ==
    (ProbCall \/ AcrossCall) /\ UNCHANGED <<combVars, payVars, ingestVars, statsVars, loadVars>>

SpecProb == InitProb /\ [][NextProb]_vars

(***************************************************************************)
(* The payout calculator of the page.  The user opens it for a game,       *)
(* which starts the load of the payout data; the load ends by filling the  *)
(* select of spot counts, or fails; the user picks a spot count and types  *)
(* a bet amount and a number of games; the button calls                    *)
(* calculatePotentialPayouts.  A behaviour ends with that call: the call   *)
(* reads nothing that an earlier call wrote.                               *)
(***************************************************************************)
\* the loads of payout data that can be under way at a time
MaxPendingLoads == 1

\* bet amounts are the multiples of a quarter up to MaxBetQuarters quarters
MaxBetQuarters == 8

BetInputs == {NaN} \cup {Num(Rat(q, 4)) : q \in 0..MaxBetQuarters}

GamesInputs == {NaN} \cup {Num(g) : g \in 0..MaxGames}

Remove(s, i) == SubSeq(s, 1, i - 1) \o SubSeq(s, i + 1, Len(s))

\* calculatePayouts(kenoGameType): the select is emptied and readData is
\* called; its promise is settled later
calculatePayouts ==
    /\ payPc = "idle"
    /\ Len(pendingPayoutLoads) < MaxPendingLoads
    /\ \E kenoGameType \in DOMAIN PayoutData :
          pendingPayoutLoads' = Append(pendingPayoutLoads, kenoGameType)
    /\ spotOptions' = <<>>
    /\ spotCountValue' = <<>>
    /\ UNCHANGED <<currentPayoutData, betAmountValue, gameAmountValue, payoutResults, payPc>>

\* the callback of calculatePayouts on the data read: the table of the game
\* becomes current and its spot counts are appended to the select, which
\* selects the first option it gets
payoutDataLoaded ==
    /\ payPc = "idle"
    /\ \E i \in DOMAIN pendingPayoutLoads :
          LET kenoGameType == pendingPayoutLoads[i]
              spots == IntegerKeys(DOMAIN PayoutData[kenoGameType].payouts)
          IN  /\ currentPayoutData' = <<kenoGameType>>
              /\ spotOptions' = spotOptions \o spots
              /\ spotCountValue' = IF spotOptions = <<>> THEN <<Head(spots)>>
                              ELSE spotCountValue
              /\ pendingPayoutLoads' = Remove(pendingPayoutLoads, i)
    /\ UNCHANGED <<betAmountValue, gameAmountValue, payoutResults, payPc>>

\* readData returned null: the callback throws on data[kenoGameType]
payoutDataFailed ==
    /\ payPc = "idle"
    /\ \E i \in DOMAIN pendingPayoutLoads :
          pendingPayoutLoads' = Remove(pendingPayoutLoads, i)
    /\ UNCHANGED <<currentPayoutData, spotOptions, spotCountValue, betAmountValue,
                   gameAmountValue, payoutResults, payPc>>

\* the user picks an option of the select
selectSpotCount ==
    /\ payPc = "idle"
    /\ \E i \in DOMAIN spotOptions : spotCountValue' = <<spotOptions[i]>>
    /\ UNCHANGED <<currentPayoutData, pendingPayoutLoads, spotOptions,
                   betAmountValue, gameAmountValue, payoutResults, payPc>>

\* the user types a bet amount
enterBetAmount ==
    /\ payPc = "idle"
    /\ betAmountValue' \in BetInputs
    /\ UNCHANGED <<currentPayoutData, pendingPayoutLoads, spotOptions,
                   spotCountValue, gameAmountValue, payoutResults, payPc>>

\* the user types a number of games
enterGameAmount ==
    /\ payPc = "idle"
    /\ gameAmountValue' \in GamesInputs
    /\ UNCHANGED <<currentPayoutData, pendingPayoutLoads, spotOptions,
                   spotCountValue, betAmountValue, payoutResults, payPc>>

\* calculatePotentialPayouts().  Without payout data the test of the if
\* statement, or the message in its body, reads a property of null and
\* throws; with a spot count that the table does not have, payouts is
\* undefined and Object.entries throws.
calculatePotentialPayouts ==
    /\ payPc = "idle"
    /\ IF currentPayoutData = <<>>
       THEN payPc' = "threw" /\ UNCHANGED payoutResults
       ELSE LET data == PayoutData[currentPayoutData[1]]
                minimumBet == Rat(data.denominations.minimumBet[1],
                                  data.denominations.minimumBet[2])
                dollar == Rat(data.denominations.dollar[1],
                              data.denominations.dollar[2])
            IN  IF betRejected(betAmountValue, gameAmountValue, minimumBet)
                THEN /\ payoutResults' = [kind |-> "minimum", entries |-> <<>>]
                     /\ payPc' = "returned"
                ELSE IF spotCountValue = <<>> \/ spotCountValue[1] \notin DOMAIN data.payouts
                THEN payPc' = "threw" /\ UNCHANGED payoutResults
                ELSE LET payouts == data.payouts[spotCountValue[1]]
                     IN  /\ \E lines \in payoutLines(payoutTiers(payouts), payouts,
                                                     spotCountValue[1], betAmountValue[1],
                                                     gameAmountValue, dollar) :
                                payoutResults' = [kind |-> "payouts", entries |-> lines]
                         /\ payPc' = "returned"
    /\ UNCHANGED <<currentPayoutData, pendingPayoutLoads, spotOptions,
                   spotCountValue, betAmountValue, gameAmountValue>>

InitPay == PayIdle /\ CombIdle /\ ProbIdle /\ IngestIdle /\ StatsIdle /\ LoadIdle

NextPay ==
    /\ \/ calculatePayouts
       \/ payoutDataLoaded
       \/ payoutDataFailed
       \/ selectSpotCount
       \/ enterBetAmount
       \/ enterGameAmount
       \/ calculatePotentialPayouts
    /\ UNCHANGED <<combVars, probVars, ingestVars, statsVars, loadVars>>

SpecPay == InitPay /\ [][NextPay]_vars

(***************************************************************************)
(* The ingestion of a data file by the script's processKenoData and by     *)
(* DataLoader.processKenoData, each called once on the data read.          *)
(***************************************************************************)
\* the dates of a file, its game numbers and its draws
MaxDates == 2

MaxGameNumber == 2

MaxDraws == 3

\* the numbers of a game as the file has them: an array of texts, or
\* something that is no array
RawDraws ==
    { [array |-> TRUE, items |-> << <<"7">>, <<"2", "0">>, <<"1", "2", "x">> >>],
      [array |-> TRUE, items |-> << <<"5">>, <<"a", "b", "c">> >>],
      [array |-> TRUE, items |-> << <<"9", "9">>, <<"0">>, <<"-", "3">> >>],
      [array |-> TRUE, items |-> <<>>],
      [array |-> FALSE, items |-> <<>>] }

\* the sequences without repetition of at most n elements of S
RECURSIVE KeySeqs(_, _)
KeySeqs(S, n) ==
    IF n <= 0 THEN {<<>>}
    ELSE {<<>>} \cup UNION { { <<x>> \o t : t \in KeySeqs(S \ {x}, n - 1) } : x \in S }

\* the objects game number -> numbers of at most n games
GameLists(n) ==
    UNION { { [i \in 1..Len(ks) |-> <<ks[i], rs[i]>>] : rs \in [1..Len(ks) -> RawDraws] } :
            ks \in KeySeqs(1..MaxGameNumber, n) }

\* the files with dates among D and at most n draws
RECURSIVE DataFiles(_, _)
DataFiles(D, n) ==
    {<<>>} \cup
    UNION { { << <<d, gs>> >> \o rest : rest \in DataFiles(D \ {d}, n - Len(gs)) } :
            d \in D, gs \in GameLists(n) }

IngestInit ==
    /\ jsonData \in {<<>>} \cup { <<f>> : f \in DataFiles(1..MaxDates, MaxDraws) }
    /\ reformattedData = <<>> /\ scriptPc = "idle"
    /\ flattenedData = <<>> /\ loaderPc = "idle"

\* the script's processKenoData(location) from the return of its readData
ScriptProcess ==
    /\ scriptPc = "idle"
    /\ reformattedData' = scriptProcessKenoData(jsonData)
    /\ scriptPc' = "returned"
    /\ UNCHANGED <<jsonData, flattenedData, loaderPc>>

\* DataLoader.processKenoData(jsonData)
LoaderProcess ==
    /\ loaderPc = "idle"
    /\ flattenedData' = processKenoData(jsonData)
    /\ loaderPc' = "returned"
    /\ UNCHANGED <<jsonData, reformattedData, scriptPc>>

InitIngest == IngestInit /\ CombIdle /\ ProbIdle /\ PayIdle /\ StatsIdle /\ LoadIdle

NextIngest ==
    (ScriptProcess \/ LoaderProcess) /\ UNCHANGED <<combVars, probVars, payVars, statsVars, loadVars>>

SpecIngest == InitIngest /\ [][NextIngest]_vars

(***************************************************************************)
(* The statistics of the page for one location.  loadData has stored the   *)
(* current-day file of the location in locationsData and what              *)
(* processKenoData made of its all-time file in allDataFromLocations; the  *)
(* page then calls an analyzer on the current-day data, and                *)
(* analyzeNumberCoOccurrenceOfAllData on the all-time data.  The analyzers *)
(* keep nothing from one call to the next, so that a behaviour has one     *)
(* call on each of the two.                                                *)
(***************************************************************************)
\* the draws of a history of which every sequence is taken
MaxHistory == 3

\* how many games beyond recentWindow the long histories have
MaxOlderGames == 2

\* the array of the numerals of ns
arrayOf(ns) == [array |-> TRUE, items |-> [i \in DOMAIN ns |-> numeral(ns[i])]]

\* the numbers of a game of a current-day file: an array of numerals,
\* also empty, in descending order, with a number twice
StatsDraws ==
    { arrayOf(<<>>), arrayOf(<<1>>), arrayOf(<<2, 1>>), arrayOf(<<1, 2, 3>>),
      arrayOf(<<3, 12>>), arrayOf(<<12, 3, 1>>), arrayOf(<<2, 2>>) }

\* the draws that the long histories repeat
LongDraws == { arrayOf(<<>>), arrayOf(<<1>>), arrayOf(<<2, 1>>), arrayOf(<<3, 12>>) }

\* the sequences of at most n elements of S
RECURSIVE SeqsUpTo(_, _)
SeqsUpTo(S, n) ==
    IF n <= 0 THEN {<<>>}
    ELSE {<<>>} \cup { <<x>> \o t : x \in S, t \in SeqsUpTo(S, n - 1) }

\* the file of the games 1..Len(draws), draws[g] being the numbers of game
\* g, written as the results table lists them: the latest game first
History(draws) ==
    [i \in 1..Len(draws) |-> <<Len(draws) - i + 1, draws[Len(draws) - i + 1]>>]

\* every history of at most MaxHistory games
ShortHistories == { History(draws) : draws \in SeqsUpTo(StatsDraws, MaxHistory) }

\* the histories of about recentWindow games: a few older games with the
\* same numbers followed by newer games with the same numbers
LongHistories ==
    { History([g \in 1..n |-> IF g <= k THEN d[1] ELSE d[2]]) :
        n \in (recentWindow - 1)..(recentWindow + MaxOlderGames),
        k \in 0..(MaxOlderGames + 1),
        d \in LongDraws \X LongDraws }

\* the all-time files: at most two dates with at most two games each, the
\* numbers of a game being an array of numerals, or an object with a
\* property numbers
AllDataDraws ==
    { arrayOf(<<1, 2>>), arrayOf(<<2, 1, 3>>), arrayOf(<<>>),
      [array |-> FALSE, items |-> <<>>, numbers |-> <<arrayOf(<<1, 2>>)>>] }

AllDataFiles ==
    { <<>> } \cup { << <<1, History(<<d>>)>> >> : d \in AllDataDraws }
    \cup { << <<2, History(<<d[1]>>)>>, <<1, History(<<d[2], d[1]>>)>> >> :
             d \in AllDataDraws \X AllDataDraws }

\* the windowSize arguments of analyzeRecentTrends, 10 being the default
WindowSizes == {1, 2, 10}

\* the recentWeight arguments of analyzeHotColdPatterns, 2 being the default
RecentWeights == {2, 3}

StatsInit ==
    /\ \/ /\ currentData \in {<<>>} \cup { <<h>> : h \in ShortHistories \cup LongHistories }
          /\ allData = <<>>
       \/ /\ currentData \in {<<>>} \cup { <<History(<<d>>)>> : d \in StatsDraws }
          /\ allData \in {<<>>} \cup { scriptProcessKenoData(<<f>>) : f \in AllDataFiles }
    /\ countsCache = <<>>
    /\ statsCall = "none" /\ statsArg = 0 /\ statsResult = <<>>
    /\ allDataPc = "idle" /\ allDataResult = <<>>
    /\ thrown = {}

\* the script's getNumberCounts(location)
CallGetNumberCounts ==
    /\ statsCall = "none"
    /\ statsCall' = "getNumberCounts"
    /\ statsResult' = getNumberCounts(currentData)
    /\ UNCHANGED <<thrown, currentData, allData, countsCache, statsArg, allDataPc, allDataResult>>

\* DataLoader.getNumberCounts(location), the current-day file being what
\* its loadCurrent resolves with: the cached counts if there are any, else
\* [] without data, else the counts, which are cached
CallLoaderGetNumberCounts ==
    /\ statsCall = "none"
    /\ statsCall' = "DataLoader.getNumberCounts"
    /\ IF countsCache # <<>>
       THEN statsResult' = countsCache /\ UNCHANGED countsCache
       ELSE IF currentData = <<>>
       THEN statsResult' = << <<>> >> /\ UNCHANGED countsCache
       ELSE /\ statsResult' = <<loaderNumberCounts(currentData)>>
            /\ countsCache' = statsResult'
    /\ UNCHANGED <<thrown, currentData, allData, statsArg, allDataPc, allDataResult>>

CallAnalyzeRecentTrends ==
    /\ statsCall = "none"
    /\ statsCall' = "analyzeRecentTrends"
    /\ \E windowSize \in WindowSizes :
          /\ statsArg' = windowSize
          /\ statsResult' = analyzeRecentTrends(currentData, windowSize)
    /\ UNCHANGED <<thrown, currentData, allData, countsCache, allDataPc, allDataResult>>

CallAnalyzeNumberGaps ==
    /\ statsCall = "none"
    /\ statsCall' = "analyzeNumberGaps"
    /\ statsResult' = analyzeNumberGaps(currentData)
    /\ UNCHANGED <<thrown, currentData, allData, countsCache, statsArg, allDataPc, allDataResult>>

CallAnalyzeHotColdPatterns ==
    /\ statsCall = "none"
    /\ statsCall' = "analyzeHotColdPatterns"
    /\ \E recentWeight \in RecentWeights :
          /\ statsArg' = recentWeight
          /\ statsResult' = analyzeHotColdPatterns(currentData, recentWeight)
    /\ UNCHANGED <<thrown, currentData, allData, countsCache, allDataPc, allDataResult>>

CallAnalyzeStreaks ==
    /\ statsCall = "none"
    /\ statsCall' = "analyzeStreaks"
    /\ statsResult' = analyzeStreaks(currentData)
    /\ UNCHANGED <<thrown, currentData, allData, countsCache, statsArg, allDataPc, allDataResult>>

CallAnalyzeNumberCoOccurrence ==
    /\ statsCall = "none"
    /\ statsCall' = "analyzeNumberCoOccurrence"
    /\ statsResult' = analyzeNumberCoOccurrence(currentData)
    /\ UNCHANGED <<thrown, currentData, allData, countsCache, statsArg, allDataPc, allDataResult>>

CallAnalyzeNumberCoOccurrenceOfAllData ==
    /\ allDataPc = "idle"
    /\ allDataPc' = "returned"
    /\ allDataResult' = analyzeNumberCoOccurrenceOfAllData(allData)
    /\ UNCHANGED <<thrown, currentData, allData, countsCache, statsCall, statsArg, statsResult>>

\* locationsData[location + 'Counts'], which loadData sets to
\* getNumberCounts(location) after it has stored the data
locationCounts == getNumberCounts(currentData)

\* the analyzer returns its value, or throws and leaves the result unset
returns(analyzer, outcome) ==
    /\ statsResult' = outcome.value
    /\ thrown' = IF outcome.threw THEN thrown \cup {analyzer} ELSE thrown

\* the same for an analyzer of the data of all days
returnsOfAllData(analyzer, outcome) ==
    /\ allDataResult' = outcome.value
    /\ thrown' = IF outcome.threw THEN thrown \cup {analyzer} ELSE thrown

CallAnalyzeNumberCombinations ==
    /\ statsCall = "none"
    /\ statsCall' = "analyzeNumberCombinations"
    /\ returns("analyzeNumberCombinations",
               analyzeNumberCombinations(currentData, locationCounts))
    /\ UNCHANGED <<currentData, allData, countsCache, statsArg, allDataPc, allDataResult>>

CallGeneratePredictions ==
    /\ statsCall = "none"
    /\ statsCall' = "generatePredictions"
    /\ returns("generatePredictions", generatePredictions(currentData))
    /\ UNCHANGED <<currentData, allData, countsCache, statsArg, allDataPc, allDataResult>>

CallAnalyzeNumberCombinationsOfAllData ==
    /\ allDataPc = "idle"
    /\ allDataPc' = "combinations"
    /\ returnsOfAllData("analyzeNumberCombinationsOfAllData",
                        analyzeNumberCombinationsOfAllData(allData, locationCounts))
    /\ UNCHANGED <<currentData, allData, countsCache, statsCall, statsArg, statsResult>>

InitStats == StatsInit /\ CombIdle /\ ProbIdle /\ PayIdle /\ IngestIdle /\ LoadIdle

NextStats ==
    /\ \/ CallGetNumberCounts
       \/ CallLoaderGetNumberCounts
       \/ CallAnalyzeRecentTrends
       \/ CallAnalyzeNumberGaps
       \/ CallAnalyzeHotColdPatterns
       \/ CallAnalyzeStreaks
       \/ CallAnalyzeNumberCoOccurrence
       \/ CallAnalyzeNumberCoOccurrenceOfAllData
       \/ CallAnalyzeNumberCombinations
       \/ CallGeneratePredictions
       \/ CallAnalyzeNumberCombinationsOfAllData
    /\ UNCHANGED <<combVars, probVars, payVars, ingestVars, loadVars>>

SpecStats == InitStats /\ [][NextStats]_vars

(***************************************************************************)
(* DataLoader: the loads of the data files.  A call runs up to its first   *)
(* await in one step; the continuation of an await and the callback of a   *)
(* timer are one step each.                                                *)
(***************************************************************************)

\* the files that a fetch can return, by name: the current-day file changes
\* between two fetches
LoadableFiles(type) ==
    IF type = "current" THEN {"current-1", "current-2"}
    ELSE IF type = "allData" THEN {"allData-1"}
    ELSE {"payouts-1"}

\* the object that response.json() gives for a current-day file; the cache
\* and the results of the calls hold the object, here by the name of its
\* file
parsed(file) ==
    IF file = "current-1" THEN History(<<arrayOf(<<1>>)>>)
    ELSE History(<<arrayOf(<<2, 1>>)>>)

\* this.cache[type][location], this.cache.payouts
cached(type, location) ==
    IF type = "payouts" THEN cache.payouts ELSE cache[type][location]

\* a loader that never finds a load pending
neverLoading(type, location) == FALSE

\* this.loading[type].has(location), this.loading.payouts
isLoading(type, location) ==
    IF type = "payouts" THEN loading.payouts ELSE location \in loading[type]

\* this.loading[type].add(location), this.loading.payouts = true
startLoading(type, location) ==
    IF type = "payouts" THEN [loading EXCEPT !.payouts = TRUE]
    ELSE [loading EXCEPT ![type] = @ \cup {location}]

\* this.loading[type].delete(location), this.loading.payouts = false
stopLoading(type, location) ==
    IF type = "payouts" THEN [loading EXCEPT !.payouts = FALSE]
    ELSE [loading EXCEPT ![type] = @ \ {location}]

\* if (data) this.cache[type][location] = data
stored(type, location, data) ==
    IF data = <<>> THEN cache
    ELSE IF type = "payouts" THEN [cache EXCEPT !.payouts = data]
    ELSE [cache EXCEPT ![type][location] = data]

\* a call can be made: it is not under way
callable(c) == calls[c].pc \in {"idle", "returned"}

\* what getNumberCounts does with the data that loadCurrent resolved with:
\* the result and cache.counts[location]
countsOf(data) ==
    IF data = <<>> THEN [result |-> << <<>> >>, counts |-> countsCache]
    ELSE [result |-> <<loaderNumberCounts(<<parsed(data[1])>>)>>,
          counts |-> <<loaderNumberCounts(<<parsed(data[1])>>)>>]

\* the call c of the calls base resolves with data: a load call returns it,
\* getNumberCounts goes on after its await of loadCurrent
resolve(base, c, data) ==
    IF base[c].op = "getNumberCounts"
    THEN /\ calls' = [base EXCEPT ![c].pc = "returned",
                                  ![c].counts = countsOf(data).result]
         /\ countsCache' = countsOf(data).counts
    ELSE /\ calls' = [base EXCEPT ![c].pc = "returned", ![c].result = data]
         /\ UNCHANGED countsCache

\* loadCurrent, loadAllData, loadPayouts up to the await: the cached data,
\* the wait for a pending load, or the fetch
load(c, op, type, location, forceReload) ==
    LET call == [noCall EXCEPT !.op = op, !.type = type, !.location = location,
                               !.forceReload = forceReload]
    IN  IF ~forceReload /\ cached(type, location) # <<>>
        THEN /\ resolve([calls EXCEPT ![c] = call], c, cached(type, location))
             /\ UNCHANGED <<cache, loading>>
        ELSE IF isLoading(type, location)
        THEN /\ calls' = [calls EXCEPT ![c] = [call EXCEPT !.pc = "waiting"]]
             /\ UNCHANGED <<cache, loading, countsCache>>
        ELSE /\ calls' = [calls EXCEPT ![c] = [call EXCEPT !.pc = "fetching"]]
             /\ loading' = startLoading(type, location)
             /\ UNCHANGED <<cache, countsCache>>

loadCurrent(c, location, forceReload) ==
    /\ callable(c)
    /\ load(c, "loadCurrent", "current", location, forceReload)

loadAllData(c, location, forceReload) ==
    /\ callable(c)
    /\ load(c, "loadAllData", "allData", location, forceReload)

loadPayouts(c, forceReload) ==
    /\ callable(c)
    /\ load(c, "loadPayouts", "payouts", "none", forceReload)

\* getNumberCounts up to its await of loadCurrent(location), or to its
\* return when the counts are cached or the data is
getNumberCountsOfLocation(c, location) ==
    /\ callable(c)
    /\ IF countsCache # <<>>
       THEN /\ calls' = [calls EXCEPT ![c] =
                            [noCall EXCEPT !.op = "getNumberCounts", !.type = "current",
                                           !.location = location, !.pc = "returned",
                                           !.counts = countsCache]]
            /\ UNCHANGED <<cache, loading, countsCache>>
       ELSE load(c, "getNumberCounts", "current", location, FALSE)

\* _readJSON resolves with the parsed file, or with null after an error:
\* the load goes on after its await.  A call that waits for this load is
\* marked with what the fetch gave.
readJSON(c, data) ==
    /\ calls[c].pc = "fetching"
    /\ cache' = stored(calls[c].type, calls[c].location, data)
    /\ loading' = stopLoading(calls[c].type, calls[c].location)
    /\ resolve([w \in Calls |->
                   IF /\ calls[w].pc = "waiting"
                      /\ calls[w].type = calls[c].type
                      /\ calls[w].location = calls[c].location
                   THEN [calls[w] EXCEPT !.awaited = <<data>>]
                   ELSE calls[w]],
               c, data)

\* the callback of the setInterval of _waitForLoad and _waitForPayoutLoad:
\* it resolves the call with the cache when nothing is loading
waitForLoad(c) ==
    /\ calls[c].pc = "waiting"
    /\ IF isLoading(calls[c].type, calls[c].location)
       THEN /\ calls' = [calls EXCEPT ![c].ticks = 1 - @]
            /\ UNCHANGED countsCache
       ELSE resolve(calls, c, cached(calls[c].type, calls[c].location))
    /\ UNCHANGED <<cache, loading>>

\* clearCache(location)
clearCache(location) ==
    /\ cache' = [cache EXCEPT !.current[location] = <<>>,
                              !.allData[location] = <<>>]
    /\ countsCache' = <<>>
    /\ UNCHANGED <<loading, calls>>

\* clearCache()
clearAllCache ==
    /\ cache' = emptyCache
    /\ countsCache' = <<>>
    /\ UNCHANGED <<loading, calls>>

InitLoad == LoadIdle /\ CombIdle /\ ProbIdle /\ PayIdle /\ IngestIdle /\ StatsIdle

NextLoad ==
    /\ \/ \E c \in Calls, l \in Locations, f \in BOOLEAN : loadCurrent(c, l, f)
       \/ \E c \in Calls, l \in Locations, f \in BOOLEAN : loadAllData(c, l, f)
       \/ \E c \in Calls, f \in BOOLEAN : loadPayouts(c, f)
       \/ \E c \in Calls, l \in Locations : getNumberCountsOfLocation(c, l)
       \/ \E c \in Calls :
              \E data \in {<<>>} \cup {<<file>> : file \in LoadableFiles(calls[c].type)} :
                  readJSON(c, data)
       \/ \E c \in Calls : waitForLoad(c)
       \/ \E l \in Locations : clearCache(l)
       \/ clearAllCache
    /\ UNCHANGED <<combVars, probVars, payVars, ingestVars, currentData, allData,
                   statsCall, statsArg, statsResult, allDataPc, allDataResult, thrown>>

SpecLoad == InitLoad /\ [][NextLoad]_vars

\* where the call c is: a step of the call changes it
position(c) == <<calls[c].pc, calls[c].ticks>>

\* the fetches settle and the timers of the waiting calls fire
LoadFairness ==
    \A c \in Calls :
        /\ WF_position(c)(waitForLoad(c))
        /\ WF_position(c)(\E data \in {<<>>} \cup {<<file>> : file \in LoadableFiles(calls[c].type)} :
                              readJSON(c, data))

\* the loads and the clearing of the cache, without getNumberCounts
NextReload ==
    /\ \/ \E c \in Calls, l \in Locations, f \in BOOLEAN : loadCurrent(c, l, f)
       \/ \E c \in Calls, l \in Locations, f \in BOOLEAN : loadAllData(c, l, f)
       \/ \E c \in Calls, f \in BOOLEAN : loadPayouts(c, f)
       \/ \E c \in Calls :
              \E data \in {<<>>} \cup {<<file>> : file \in LoadableFiles(calls[c].type)} :
                  readJSON(c, data)
       \/ \E c \in Calls : waitForLoad(c)
       \/ \E l \in Locations : clearCache(l)
       \/ clearAllCache
    /\ UNCHANGED <<combVars, probVars, payVars, ingestVars, currentData, allData,
                   statsCall, statsArg, statsResult, allDataPc, allDataResult, thrown>>

SpecLoadFair == InitLoad /\ [][NextReload]_vars /\ LoadFairness

(***************************************************************************)
(* The binomial coefficients by Pascal's recurrence, exactly.              *)
(***************************************************************************)
\* row n + 1 from row n; entry k + 1 of a row is C(n, k)
PascalRow(prev) ==
    [k \in 1..(Len(prev) + 1) |->
        BAdd(IF k = 1 THEN <<>> ELSE prev[k - 1],
             IF k > Len(prev) THEN <<>> ELSE prev[k])]

\* the rows lo .. hi appended to the rows 0 .. lo - 1.  The range is halved
\* so that the evaluation nests log(hi - lo) deep.
RECURSIVE PascalRows(_, _, _)
PascalRows(rows, lo, hi) ==
    IF rows = <<>> \/ lo > hi THEN rows
    ELSE IF lo = hi THEN Append(rows, PascalRow(rows[lo]))
    ELSE LET mid == (lo + hi) \div 2
         IN  PascalRows(PascalRows(rows, lo, mid), mid + 1, hi)

PascalTable == PascalRows(<< << <<1>> >> >>, 1, totalNumbers)

Binomial(n, k) == IF k < 0 \/ k > n THEN <<>> ELSE PascalTable[n + 1][k + 1]

\* the binary64 value x is exactly the natural X
DIsNat(x, X) ==
    IF DIsZero(x) THEN X = <<>>
    ELSE IF x.e >= 0 THEN BShl(x.m, x.e) = X
    ELSE BLowZero(x.m, 0 - x.e) /\ BShr(x.m, 0 - x.e) = X

\* the k of entry i of crow
CombK(i) == i - CombSlack - 1

CombAt(k) == crow[k + CombSlack + 1]

(***************************************************************************)
(* C2: combinations(n, k) is 0 for k > n or k < 0, 1 for k = 0 or k = n,   *)
(* and otherwise exactly the binomial coefficient C(n, k) of Pascal's      *)
(* recurrence, for every n up to the pool size.                            *)
(***************************************************************************)
C2_CombinationsIsBinomial ==
    crow # <<>> =>
        LET r == CombAt(ck) IN
        /\ (ck > cn \/ ck < 0) => r = DZero
        /\ (ck = 0 \/ ck = cn) => r = DOne
        /\ (0 <= ck /\ ck <= cn) => DIsNat(r, Binomial(cn, ck))

(***************************************************************************)
(* C4: combinations(n, k) = combinations(n, n - k) for 0 <= k <= n.        *)
(***************************************************************************)
C4_CombinationsSymmetric ==
    \A k \in 0..cn : (k <= ck /\ cn - k <= ck) => CombAt(k) = CombAt(cn - k)

BAbsDiff(a, b) == IF BCmp(a, b) >= 0 THEN BSub(a, b) ELSE BSub(b, a)

\* the binary64 value x is within the fraction 2^-bits of A / B, for B > 0
DNear(x, A, B, bits) ==
    LET L == BMul(BShl(x.m, Max(0, x.e)), B)
        R == BShl(A, Max(0, 0 - x.e))
    IN  BCmp(BShl(BAbsDiff(L, R), bits), R) <= 0

ProbInvalid == pM > pS \/ pM > pD \/ pS > pN \/ pS - pM > pN - pD

\* the hypergeometric probability is HyperNum / HyperDen
HyperNum == BMul(Binomial(pD, pM), Binomial(pN - pD, pS - pM))

HyperDen == Binomial(pN, pS)

\* a probability agrees with the exact quotient to ProbTolBits bits
ProbTolBits == 40

(***************************************************************************)
(* C1: probabilityOfHitting returns exactly 0 when matches > spotCount,    *)
(* matches > drawSize, spotCount > poolSize or spotCount - matches >       *)
(* poolSize - drawSize; for every other input it returns                   *)
(* C(drawSize, matches) * C(poolSize - drawSize, spotCount - matches) /    *)
(* C(poolSize, spotCount), a number in [0,1].  The result is a binary64    *)
(* value: it is compared with the exact quotient to 2^-ProbTolBits of it.  *)
(***************************************************************************)
C1_ProbabilityOfHitting ==
    pM >= 0 =>
        IF ProbInvalid THEN pres = DZero
        ELSE /\ DNear(pres, HyperNum, HyperDen, ProbTolBits)
             /\ DLeq(pres, DOne)

\* the documented example probabilityOfHitting(5, 10) has been evaluated
C1_Witness ==
    /\ pN = totalNumbers /\ pD = numbersDrawn /\ pS = 10 /\ pM = 5
    /\ ~ProbInvalid /\ ~DIsZero(pres) /\ DLess(pres, DOne)

\* every possible number of matches has been added to psum
SumComplete == 1 <= pS /\ pS <= pN /\ pM >= MaxMatches(pS, pD)

\* the sum agrees with 1 to SumTolBits bits
SumTolBits == 40

(***************************************************************************)
(* C3, as amended: for every spotCount in 1..poolSize the sum of           *)
(* probabilityOfHitting(matches, spotCount) over matches in                *)
(* max(0, spotCount - (poolSize - drawSize)) .. min(spotCount, drawSize)   *)
(* equals 1 to within 2^-SumTolBits.                                       *)
(***************************************************************************)
C3_SumNearOne == SumComplete => DNear(psum, <<1>>, <<1>>, SumTolBits)

\* C3 as stated: the sum equals 1
C3_SumIsOne == SumComplete => psum = DOne

\* a sum whose range of matches starts above 0 has been completed
C3_Witness ==
    /\ pN = totalNumbers /\ pD = numbersDrawn /\ pS = 70
    /\ MinMatches(pS, pN, pD) = 10 /\ SumComplete /\ ~DIsZero(psum)

\* across numGames games: within 2^-bits of 1 - (1 - p)^numGames, p being
\* the single-game probability, a binary64 value M * 2^-sh in [0,1]
AcrossNear(x, prob, numGames, bits) ==
    IF DIsZero(prob) THEN DIsZero(x)
    ELSE LET sh == 0 - prob.e
             one == BShl(<<1>>, sh * numGames)
             T == BSub(one, BPow(BSub(BShl(<<1>>, sh), prob.m), numGames))
         IN  IF DIsZero(x) THEN BCmp(BShl(T, bits), one) <= 0
             ELSE LET up == Max(0, 0 - (sh * numGames + x.e))
                      X == BShl(x.m, sh * numGames + x.e + up)
                  IN  BCmp(BShl(BAbsDiff(X, BShl(T, up)), bits), BShl(one, up)) <= 0

AcrossTolBits == 50

\* the across-games probability is the stated expression of the single-game one
C5_AcrossFormula == pG >= 1 => AcrossNear(pacross, pres, pG, AcrossTolBits)

(***************************************************************************)
(* C5: probabilityAcrossGames(matches, spotCount, 1) equals                *)
(* probabilityOfHitting(matches, spotCount), and in general                *)
(* probabilityAcrossGames is 1 - (1 - probabilityOfHitting)^numGames.      *)
(***************************************************************************)
C5_AcrossOneGameIsSingle ==
    /\ pG = 1 => pacross = pres
    /\ C5_AcrossFormula

\* the table of the payout calculator and its denominations
PayTable == PayoutData[currentPayoutData[1]]

PayMinimumBet ==
    Rat(PayTable.denominations.minimumBet[1], PayTable.denominations.minimumBet[2])

PayDollar ==
    Rat(PayTable.denominations.dollar[1], PayTable.denominations.dollar[2])

\* betAmount * numGames
TotalBet == DMul(betAmountValue[1], DOfInt(gameAmountValue[1]))

\* the select holds a spot count of the table
SpotSelected ==
    spotCountValue # <<>> /\ spotCountValue[1] \in DOMAIN PayTable.payouts

(***************************************************************************)
(* C6: with payout data loaded, calculatePotentialPayouts shows the        *)
(* minimum-bet message and no payout entry whenever betAmount < minimumBet *)
(* and betAmount * numGames < minimumBet; and whenever betAmount > 0 and   *)
(* (betAmount >= minimumBet or betAmount * numGames >= minimumBet) it      *)
(* shows one entry for each match tier of the selected spot count and no   *)
(* message.                                                                *)
(***************************************************************************)
C6_BetValidation ==
    (payPc # "idle" /\ currentPayoutData # <<>>) =>
        /\ ( /\ ~IsNaN(betAmountValue) /\ ~IsNaN(gameAmountValue)
             /\ DLess(betAmountValue[1], PayMinimumBet)
             /\ DLess(TotalBet, PayMinimumBet) )
           => /\ payPc = "returned"
              /\ payoutResults = [kind |-> "minimum", entries |-> <<>>]
        /\ ( /\ ~IsNaN(betAmountValue) /\ ~DIsZero(betAmountValue[1])
             /\ \/ DLeq(PayMinimumBet, betAmountValue[1])
                \/ ~IsNaN(gameAmountValue) /\ DLeq(PayMinimumBet, TotalBet)
             /\ SpotSelected )
           => /\ payPc = "returned"
              /\ payoutResults.kind = "payouts"
              /\ Len(payoutResults.entries)
                    = Cardinality(DOMAIN PayTable.payouts[spotCountValue[1]])
              /\ {e.matches : e \in Range(payoutResults.entries)}
                    = DOMAIN PayTable.payouts[spotCountValue[1]]

\* a bet below the minimum, over too few games to reach it, got the message
C6_Witness ==
    /\ payPc = "returned" /\ currentPayoutData # <<>>
    /\ ~IsNaN(betAmountValue) /\ ~DIsZero(betAmountValue[1])
    /\ ~IsNaN(gameAmountValue) /\ gameAmountValue[1] >= 1
    /\ DLess(TotalBet, PayMinimumBet)
    /\ payoutResults.kind = "minimum"

\* p is the hypergeometric probability of matches out of spot, to
\* ProbTolBits bits
HyperNear(p, matches, spot) ==
    DNear(p,
          BMul(Binomial(numbersDrawn, matches),
               Binomial(totalNumbers - numbersDrawn, spot - matches)),
          Binomial(totalNumbers, spot),
          ProbTolBits)

(***************************************************************************)
(* C7: for a valid bet calculatePotentialPayouts shows the match tiers of  *)
(* the chosen spot count in strictly descending order of matches; the      *)
(* payout of a tier is basePayout * betAmount / denominations.dollar; its  *)
(* probability is probabilityOfHitting(matches, spotCount), the            *)
(* hypergeometric probability, when numGames = 1, and                      *)
(* probabilityAcrossGames(matches, spotCount, numGames), that is           *)
(* 1 - (1 - probabilityOfHitting)^numGames, when numGames > 1.             *)
(***************************************************************************)
C7_PayoutTiers ==
    (payPc = "returned" /\ payoutResults.kind = "payouts") =>
        LET entries == payoutResults.entries
            spot == spotCountValue[1]
            payouts == PayTable.payouts[spot]
        IN  /\ \A i \in 1..(Len(entries) - 1) :
                  entries[i].matches > entries[i + 1].matches
            /\ \A i \in DOMAIN entries :
                  LET e == entries[i]
                      single == scriptProbabilityOfHitting(e.matches, spot)
                  IN  /\ e.matches \in DOMAIN payouts
                      /\ e.payout = DDiv(DMul(DOfInt(payouts[e.matches]),
                                              betAmountValue[1]), PayDollar)
                      /\ gameAmountValue = Num(1) =>
                            /\ e.probability = single
                            /\ HyperNear(e.probability, e.matches, spot)
                      /\ acrossGames(gameAmountValue) =>
                            /\ e.probability \in scriptProbabilityAcrossGames(
                                                    e.matches, spot, gameAmountValue[1])
                            /\ AcrossNear(e.probability, single,
                                          gameAmountValue[1], AcrossTolBits)

\* three tiers have been shown for a bet over several games
C7_Witness ==
    /\ payPc = "returned" /\ payoutResults.kind = "payouts"
    /\ Len(payoutResults.entries) = 3
    /\ acrossGames(gameAmountValue)
    /\ ~DIsInteger(payoutResults.entries[3].payout)

\* the draws of the file: <<i, j>> is the j-th game of its i-th date
InputDraws ==
    IF jsonData = <<>> THEN {}
    ELSE UNION { { <<i, j>> : j \in DOMAIN jsonData[1][i][2] } : i \in DOMAIN jsonData[1] }

DrawDate(x) == jsonData[1][x[1]][1]

DrawGame(x) == jsonData[1][x[1]][2][x[2]][1]

DrawNumbers(x) == jsonData[1][x[1]][2][x[2]][2]

(***************************************************************************)
(* C8: from a file of N draws the script's processKenoData makes exactly   *)
(* N entries with the keys 1..N, every draw (date, game number) under one  *)
(* key of its own with its numbers unchanged: draws with the same game     *)
(* number on different dates get different keys and none overwrites        *)
(* another.                                                                *)
(***************************************************************************)
C8_Reindexing ==
    (scriptPc = "returned" /\ jsonData # <<>>) =>
        /\ reformattedData # <<>>
        /\ LET N == Cardinality(InputDraws) IN
           /\ DOMAIN reformattedData[1] = 1..N
           /\ \E id \in [InputDraws -> 1..N] :
                 /\ \A x, y \in InputDraws : x # y => id[x] # id[y]
                 /\ \A x \in InputDraws : reformattedData[1][id[x]] = DrawNumbers(x)

\* a file with the same game number on two dates, with different numbers,
\* has been processed
C8_Witness ==
    /\ scriptPc = "returned" /\ reformattedData # <<>>
    /\ \E x, y \in InputDraws :
          /\ DrawDate(x) # DrawDate(y)
          /\ DrawGame(x) = DrawGame(y)
          /\ DrawNumbers(x) # DrawNumbers(y)
    /\ Cardinality(DOMAIN reformattedData[1]) = Cardinality(InputDraws)

\* no two draws of the file have the same numbers
NumbersDistinct ==
    \A x, y \in InputDraws : x # y => DrawNumbers(x) # DrawNumbers(y)

\* the draw that the script's processKenoData stored under key, when no two
\* draws have the same numbers
DrawOfKey(key) ==
    CHOOSE x \in InputDraws : DrawNumbers(x) = reformattedData[1][key]

(***************************************************************************)
(* C9: the script's processKenoData gives the keys 1..N most recent draw   *)
(* first: a draw with a smaller key than another has a later date, or the  *)
(* same date and a greater game number, whatever the order of the dates    *)
(* and the game numbers in the file.                                       *)
(***************************************************************************)
C9_MostRecentFirst ==
    (scriptPc = "returned" /\ jsonData # <<>> /\ NumbersDistinct) =>
        \A i, j \in DOMAIN reformattedData[1] :
            i < j =>
                LET x == DrawOfKey(i)
                    y == DrawOfKey(j)
                IN  \/ DrawDate(x) > DrawDate(y)
                    \/ DrawDate(x) = DrawDate(y) /\ DrawGame(x) > DrawGame(y)

(***************************************************************************)
(* C10: every draw that DataLoader.processKenoData returns is valid: its   *)
(* numbers are integers in 1..80, none NaN and none out of range, and it   *)
(* has at least one number.                                                *)
(***************************************************************************)
C10_OutputDrawsValid ==
    loaderPc = "returned" =>
        \A i \in DOMAIN flattenedData :
            LET numbers == flattenedData[i].numbers IN
            /\ numbers # <<>>
            /\ \A k \in DOMAIN numbers :
                  ~IsNaN(numbers[k]) /\ numbers[k][1] \in 1..totalNumbers

(***************************************************************************)
(* The history of the current-day file as the claims about the analyzers   *)
(* read it, counted from the file and not by the analyzers.                *)
(***************************************************************************)
\* the games of the current-day file, <<game number, numbers>> each
HistoryGames == IF currentData = <<>> THEN {} ELSE Range(currentData[1])

\* the number of draws of the history
HistoryLength == Cardinality(HistoryGames)

\* the values of the numbers of a game
ValuesOf(game) == {Number(game[2].items[k])[1] : k \in DOMAIN game[2].items}

\* the occurrences of the number n in a set of games: its positions
OccurrencesIn(games, n) ==
    Cardinality(UNION {{<<g[1], k>> : k \in {j \in DOMAIN g[2].items :
                                                Number(g[2].items[j]) = Num(n)}} :
                       g \in games})

\* the numbers that appear in a set of games
NumbersIn(games) == UNION {ValuesOf(g) : g \in games}

\* the result of a call of one of the two getNumberCounts with a history,
\* the number of an entry as a value
CountsReturned ==
    /\ statsCall \in {"getNumberCounts", "DataLoader.getNumberCounts"}
    /\ currentData # <<>>

CountedNumber(entry) ==
    IF statsCall = "getNumberCounts" THEN Number(entry.number) ELSE entry.number

(***************************************************************************)
(* C11: getNumberCounts returns one entry for each number that appears in  *)
(* a draw of the history and none for another number, the count of an      *)
(* entry is the number of occurrences of its number in all the draws, and  *)
(* the counts of the entries do not increase.                              *)
(***************************************************************************)
C11_NumberCounts ==
    CountsReturned =>
        LET counts == statsResult[1] IN
        /\ \A n \in NumbersIn(HistoryGames) :
              /\ Cardinality({i \in DOMAIN counts : CountedNumber(counts[i]) = Num(n)}) = 1
              /\ \A i \in DOMAIN counts :
                    CountedNumber(counts[i]) = Num(n) =>
                        counts[i].count = OccurrencesIn(HistoryGames, n)
        /\ \A i \in DOMAIN counts :
              \E n \in NumbersIn(HistoryGames) : CountedNumber(counts[i]) = Num(n)
        /\ \A i \in DOMAIN counts :
              i < Len(counts) => counts[i].count >= counts[i + 1].count

\* the counts of a history whose most frequent number is not the first
\* number of its first game: the draws 1,2,3 and 3,12 give 3:2 first
C11_Witness ==
    /\ statsCall = "getNumberCounts" /\ currentData # <<>>
    /\ HistoryLength = 2
    /\ Len(statsResult[1]) = 4
    /\ statsResult[1][1] = [number |-> numeral(3), count |-> 2]
    /\ statsResult[1][2] = [number |-> numeral(1), count |-> 1]

(***************************************************************************)
(* C12: two entries of getNumberCounts with the same count are in          *)
(* ascending order of their numbers, whatever the order of the numbers in  *)
(* the draws.                                                              *)
(***************************************************************************)
C12_TiesAscending ==
    CountsReturned =>
        LET counts == statsResult[1] IN
        \A i, j \in DOMAIN counts :
            (i < j /\ counts[i].count = counts[j].count) =>
                CountedNumber(counts[i])[1] < CountedNumber(counts[j])[1]

\* analyzeNumberGaps has returned the records of a history
GapsReturned == statsCall = "analyzeNumberGaps" /\ currentData # <<>>

\* the records that analyzeNumberGaps returned for the number n
GapRecordsOf(n) ==
    {statsResult[1][i] : i \in {j \in DOMAIN statsResult[1] :
                                    statsResult[1][j].number = Num(n)}}

\* the games of the history that contain the number n
GamesWith(n) == {g \in HistoryGames : n \in ValuesOf(g)}

\* the number of games of the history more recent than the game g
MoreRecent(g) == Cardinality({h \in HistoryGames : h[1] > g[1]})

(***************************************************************************)
(* C13: analyzeNumberGaps returns one record for each of the numbers       *)
(* 1..80; the record of a number that is in no draw of a history of N      *)
(* draws has currentGap = N and averageGap = N, and its gapRatio is        *)
(* finite.                                                                 *)
(***************************************************************************)
C13_GapsCoverPool ==
    GapsReturned =>
        \A n \in 1..gapNumbers :
            /\ Cardinality({i \in DOMAIN statsResult[1] :
                               statsResult[1][i].number = Num(n)}) = 1
            /\ GamesWith(n) = {} =>
                  \A r \in GapRecordsOf(n) :
                      /\ r.currentGap = Num(HistoryLength)
                      /\ r.averageGap = Finite(DOfInt(HistoryLength))
                      /\ r.gapRatio.kind = "finite"

(***************************************************************************)
(* C14: for a history with at least one draw, the record of                *)
(* analyzeNumberGaps for a number that is in every draw has currentGap = 0 *)
(* and averageGap = 0.                                                     *)
(***************************************************************************)
C14_GapsOfConstantNumber ==
    (GapsReturned /\ HistoryGames # {}) =>
        \A n \in NumbersIn(HistoryGames) :
            GamesWith(n) = HistoryGames =>
                /\ GapRecordsOf(n) # {}
                /\ \A r \in GapRecordsOf(n) :
                      /\ r.currentGap = Num(0)
                      /\ r.averageGap = Finite(DZero)

(***************************************************************************)
(* C15: for a number that is in a draw of the history, the currentGap of   *)
(* analyzeNumberGaps is the number of draws more recent than the newest    *)
(* draw with the number, and averageGap is the mean of the gaps recorded   *)
(* at its appearances in the scan from the newest draw to the oldest: the  *)
(* gaps between one appearance and the next add up to the place of the     *)
(* oldest draw with the number in the scan.                                *)
(***************************************************************************)
C15_GapsOfSeenNumber ==
    GapsReturned =>
        \A n \in NumbersIn(HistoryGames) :
            LET newest == CHOOSE g \in GamesWith(n) :
                              \A h \in GamesWith(n) : h[1] <= g[1]
                oldest == CHOOSE g \in GamesWith(n) :
                              \A h \in GamesWith(n) : h[1] >= g[1]
            IN  /\ GapRecordsOf(n) # {}
                /\ \A r \in GapRecordsOf(n) :
                      /\ r.currentGap = Num(MoreRecent(newest))
                      /\ r.averageGap =
                            Finite(DDiv(DOfInt(MoreRecent(oldest) + 1),
                                        DOfInt(OccurrencesIn(HistoryGames, n))))

\* no draw of the history has a number twice
DrawsDistinct ==
    \A g \in HistoryGames : Cardinality(ValuesOf(g)) = Len(g[2].items)

\* the pairs a < b of numbers that the games have in one draw
PairsIn(games) ==
    UNION {{<<a, b>> : a \in ValuesOf(g), b \in ValuesOf(g)} \cap
           {p \in NumbersIn(games) \X NumbersIn(games) : p[1] < p[2]} :
           g \in games}

\* the number of games that contain both numbers of the pair p
GamesWithBoth(games, p) ==
    Cardinality({g \in games : p[1] \in ValuesOf(g) /\ p[2] \in ValuesOf(g)})

(***************************************************************************)
(* C16: for a history whose draws have distinct numbers,                   *)
(* analyzeNumberCoOccurrence returns one entry for each pair of numbers    *)
(* that are together in a draw and no other entry; the pair of an entry    *)
(* is sorted, smaller number first, wherever the numbers are in the        *)
(* draws; its frequency is the number of draws with both numbers; the      *)
(* frequencies of the entries do not increase.                             *)
(***************************************************************************)
C16_CoOccurrence ==
    (statsCall = "analyzeNumberCoOccurrence" /\ currentData # <<>> /\ DrawsDistinct) =>
        LET entries == statsResult[1] IN
        /\ \A p \in PairsIn(HistoryGames) :
              /\ Cardinality({i \in DOMAIN entries :
                                 entries[i].pair = <<Num(p[1]), Num(p[2])>>}) = 1
              /\ \A i \in DOMAIN entries :
                    entries[i].pair = <<Num(p[1]), Num(p[2])>> =>
                        entries[i].frequency = GamesWithBoth(HistoryGames, p)
        /\ \A i \in DOMAIN entries :
              \E p \in PairsIn(HistoryGames) :
                  entries[i].pair = <<Num(p[1]), Num(p[2])>>
        /\ \A i \in DOMAIN entries :
              i < Len(entries) => entries[i].frequency >= entries[i + 1].frequency

\* the draws 3,12 and 12,3,1: the pair (3, 12), listed in both orders, is
\* counted twice under one entry
C16_Witness ==
    /\ statsCall = "analyzeNumberCoOccurrence" /\ currentData # <<>> /\ DrawsDistinct
    /\ HistoryLength = 2
    /\ Len(statsResult[1]) = 3
    /\ statsResult[1][1] = [pair |-> <<Num(3), Num(12)>>, frequency |-> 2]
    /\ \E i \in DOMAIN statsResult[1] :
          statsResult[1][i] = [pair |-> <<Num(1), Num(12)>>, frequency |-> 1]

\* the draws of the merged history that processKenoData stored,
\* <<ID, numbers>> each: the games whose numbers are an array, as the
\* all-time files have them
MergedGames ==
    IF allData = <<>> THEN {}
    ELSE {<<k, allData[1][k]>> : k \in {j \in DOMAIN allData[1] : allData[1][j].array}}

(***************************************************************************)
(* C17: on the merged history that processKenoData stored in               *)
(* allDataFromLocations, analyzeNumberCoOccurrenceOfAllData returns for    *)
(* every pair of numbers that are together in a merged draw an entry whose *)
(* frequency is the number of merged draws with both numbers, as the       *)
(* counting of the current scope does on those draws: the result is not    *)
(* empty when a draw has two numbers.                                      *)
(***************************************************************************)
C17_AllDataCoOccurrence ==
    (allDataPc = "returned" /\ allData # <<>>) =>
        \A p \in PairsIn(MergedGames) :
            \E i \in DOMAIN allDataResult[1] :
                /\ allDataResult[1][i].pair = <<Num(p[1]), Num(p[2])>>
                /\ allDataResult[1][i].frequency = GamesWithBoth(MergedGames, p)

\* a call of analyzeNumberCoOccurrenceOfAllData leaves the data and the
\* result of the analyzers of the current scope as they are, and the other
\* way round
AllDataCallIndependent ==
    [][/\ allDataPc' # allDataPc =>
             UNCHANGED <<currentData, countsCache, statsCall, statsArg, statsResult>>
       /\ statsCall' # statsCall => UNCHANGED <<allData, allDataPc, allDataResult>>]_vars

\* the w most recent games of the history: all of them if there are fewer
WindowGames(w) == {g \in HistoryGames : MoreRecent(g) < w}

\* the entries of a result for the number n
EntriesOf(result, n) ==
    {result[i] : i \in {j \in DOMAIN result : result[j].number = Num(n)}}

\* only one entry of the result has the number n
OneEntryOf(result, n) ==
    Cardinality({i \in DOMAIN result : result[i].number = Num(n)}) = 1

(***************************************************************************)
(* C18: analyzeRecentTrends with windowSize w counts the w most recent     *)
(* draws of the history, all draws if there are fewer: it returns one      *)
(* entry for each number that is in one of them and no entry for another   *)
(* number, with recentFrequency the number of its occurrences in those     *)
(* draws and momentum = recentFrequency / w.                               *)
(***************************************************************************)
C18_RecentTrends ==
    (statsCall = "analyzeRecentTrends" /\ currentData # <<>>) =>
        LET trends == statsResult[1]
            window == WindowGames(statsArg)
        IN  /\ \A n \in NumbersIn(window) :
                  /\ OneEntryOf(trends, n)
                  /\ \A t \in EntriesOf(trends, n) :
                        /\ t.recentFrequency = OccurrencesIn(window, n)
                        /\ t.momentum = DDiv(DOfInt(OccurrencesIn(window, n)),
                                             DOfInt(statsArg))
            /\ \A i \in DOMAIN trends :
                  \E n \in NumbersIn(window) : trends[i].number = Num(n)

\* a history of three draws and a window of two: a number of the oldest
\* draw only has no entry, a number of both draws of the window has
\* recentFrequency 2
C18_Witness ==
    /\ statsCall = "analyzeRecentTrends" /\ currentData # <<>>
    /\ statsArg = 2 /\ HistoryLength = 3
    /\ NumbersIn(HistoryGames) # NumbersIn(WindowGames(2))
    /\ \E i \in DOMAIN statsResult[1] : statsResult[1][i].recentFrequency = 2

\* the games of the history older than the recentWindow most recent ones
OlderGames == HistoryGames \ WindowGames(recentWindow)

GameAt(i) ==
    CHOOSE g \in HistoryGames : Cardinality({h \in HistoryGames : h[1] < g[1]}) = i - 1

\* the length of the longest run of consecutive draws that all contain n:
\* 0 if no draw contains n
LongestRun(n) ==
    LET lengths == {0} \cup
            {len \in 1..HistoryLength :
                \E i \in 1..(HistoryLength - len + 1) :
                    \A k \in i..(i + len - 1) : n \in ValuesOf(GameAt(k))}
    IN  CHOOSE len \in lengths : \A other \in lengths : other <= len

(***************************************************************************)
(* C20: for a history whose draws have distinct numbers, analyzeStreaks    *)
(* returns for each number that is in a draw one entry whose maxStreak is  *)
(* the length of the longest run of consecutive draws, in the order of the *)
(* history, that all contain the number, so between 1 and the number of    *)
(* draws; it returns no entry for another number; the maxStreak of the     *)
(* entries does not increase.                                              *)
(***************************************************************************)
C20_Streaks ==
    (statsCall = "analyzeStreaks" /\ currentData # <<>> /\ DrawsDistinct) =>
        LET records == statsResult[1] IN
        /\ \A n \in NumbersIn(HistoryGames) :
              /\ Cardinality({i \in DOMAIN records :
                                 Number(records[i].number) = Num(n)}) = 1
              /\ \A i \in DOMAIN records :
                    Number(records[i].number) = Num(n) =>
                        /\ records[i].maxStreak = LongestRun(n)
                        /\ records[i].maxStreak \in 1..HistoryLength
        /\ \A i \in DOMAIN records :
              \E n \in NumbersIn(HistoryGames) : Number(records[i].number) = Num(n)
        /\ \A i \in DOMAIN records :
              i < Len(records) => records[i].maxStreak >= records[i + 1].maxStreak

\* three draws with distinct numbers: a number of the first and the third
\* draw only has maxStreak 1, a number of all three has maxStreak 3
C20_Witness ==
    /\ statsCall = "analyzeStreaks" /\ currentData # <<>> /\ DrawsDistinct
    /\ HistoryLength = 3
    /\ \E i \in DOMAIN statsResult[1] :
          /\ statsResult[1][i].maxStreak = 1
          /\ Cardinality(GamesWith(Number(statsResult[1][i].number)[1])) = 2
    /\ statsResult[1][1].maxStreak = 3

\* the triples a < b < c of numbers that the games have in one draw
TriplesIn(games) ==
    {t \in NumbersIn(games) \X NumbersIn(games) \X NumbersIn(games) :
        /\ t[1] < t[2] /\ t[2] < t[3]
        /\ \E g \in games : {t[1], t[2], t[3]} \subseteq ValuesOf(g)}

\* the number of games that contain the three numbers of the triple t
GamesWithAll(games, t) ==
    Cardinality({g \in games : {t[1], t[2], t[3]} \subseteq ValuesOf(g)})

\* the sum of the frequencies of the three numbers of t in the games
FrequencySum(games, t) ==
    OccurrencesIn(games, t[1]) + OccurrencesIn(games, t[2]) + OccurrencesIn(games, t[3])

\* the triple s is ranked before the triple t: more occurrences, or as many
\* and a greater sum of the frequencies of its numbers
RankedBefore(games, s, t) ==
    \/ GamesWithAll(games, s) > GamesWithAll(games, t)
    \/ /\ GamesWithAll(games, s) = GamesWithAll(games, t)
       /\ FrequencySum(games, s) > FrequencySum(games, t)

\* the numbers of a combination record as a triple of values
TripleOf(record) ==
    <<record.numbers[1][1], record.numbers[2][1], record.numbers[3][1]>>

\* the records are of triples of the games, each with its occurrences, no
\* triple twice
RecordsOfTriples(records, games) ==
    /\ \A i \in DOMAIN records :
          /\ Len(records[i].numbers) = 3
          /\ TripleOf(records[i]) \in TriplesIn(games)
          /\ records[i].occurrences = GamesWithAll(games, TripleOf(records[i]))
    /\ \A i, j \in DOMAIN records :
          i # j => TripleOf(records[i]) # TripleOf(records[j])

(***************************************************************************)
(* C21: analyzeNumberCombinations returns at most 10 records, the first 10 *)
(* of the triples that are in a draw, ranked by occurrences, the greater   *)
(* first, and among triples with the same occurrences by the sum of the    *)
(* frequencies of their three numbers, the greater first; the numbers of a *)
(* record are the triple in ascending order, occurrences is the number of  *)
(* draws with all three and confidence is occurrences / totalDraws * 100   *)
(* (printed with two decimals).                                            *)
(***************************************************************************)
C21_TopCombinations ==
    (statsCall = "analyzeNumberCombinations" /\ currentData # <<>>) =>
        LET records == statsResult[1]
            triples == TriplesIn(HistoryGames)
        IN  /\ Len(records) = Min(topCombinations, Cardinality(triples))
            /\ RecordsOfTriples(records, HistoryGames)
            /\ \A i \in DOMAIN records :
                  records[i].confidence =
                      toFixed(Finite(DMul(DDiv(DOfInt(records[i].occurrences),
                                               DOfInt(HistoryLength)),
                                          DOfInt(100))), 2)
            /\ \A i, j \in DOMAIN records :
                  i < j => ~RankedBefore(HistoryGames, TripleOf(records[j]),
                                         TripleOf(records[i]))
            /\ \A t \in triples :
                  (\A i \in DOMAIN records : TripleOf(records[i]) # t) =>
                      \A i \in DOMAIN records :
                          ~RankedBefore(HistoryGames, t, TripleOf(records[i]))

\* C21 without its tie-break: the records are the triples with their
\* occurrences, which do not increase
CombinationsByOccurrences ==
    (statsCall = "analyzeNumberCombinations" /\ currentData # <<>>) =>
        LET records == statsResult[1] IN
        /\ Len(records) = Min(topCombinations, Cardinality(TriplesIn(HistoryGames)))
        /\ RecordsOfTriples(records, HistoryGames)
        /\ \A i \in DOMAIN records :
              i < Len(records) => records[i].occurrences >= records[i + 1].occurrences

\* the mean of the frequencies of the numbers of a combination record in
\* the games, printed with two decimals
MeanFrequency(games, record) ==
    toFixed(Finite(DDiv(DOfInt(FrequencySum(games, TripleOf(record))), DOfInt(3))), 2)

(***************************************************************************)
(* C22: avgIndividualFrequency of a combination record is the mean of the  *)
(* frequencies of its three numbers in the history that the combinations   *)
(* were counted in: the current-day history for analyzeNumberCombinations, *)
(* the merged all-time history for analyzeNumberCombinationsOfAllData,     *)
(* which returns its records.                                              *)
(***************************************************************************)
C22_AvgIndividualFrequency ==
    /\ (statsCall = "analyzeNumberCombinations" /\ currentData # <<>>) =>
          \A i \in DOMAIN statsResult[1] :
              statsResult[1][i].avgIndividualFrequency =
                  MeanFrequency(HistoryGames, statsResult[1][i])
    /\ (allDataPc = "combinations" /\ allData # <<>>) =>
          /\ "analyzeNumberCombinationsOfAllData" \notin thrown
          /\ \A i \in DOMAIN allDataResult[1] :
                allDataResult[1][i].avgIndividualFrequency =
                    MeanFrequency(MergedGames, allDataResult[1][i])

\* generatePredictions returned for a loaded history
PredictionsReturned == statsCall = "generatePredictions" /\ currentData # <<>>

\* the greatest of a non-empty set of integers
MaxOf(S) == CHOOSE x \in S : \A y \in S : y <= x

\* the occurrences of n in the draws that analyzeRecentTrends counts for
\* generatePredictions: momentum is this number / defaultWindowSize
TrendOf(n) == OccurrencesIn(WindowGames(defaultWindowSize), n)

\* weightedScore of n as analyzeHotColdPatterns computes it for
\* generatePredictions
HotColdOf(n) ==
    defaultRecentWeight * OccurrencesIn(WindowGames(recentWindow), n)
        + OccurrencesIn(OlderGames, n)

\* the greatest of these metrics over the numbers of the history
MaxTrend == MaxOf({TrendOf(n) : n \in NumbersIn(HistoryGames)})

MaxHotCold == MaxOf({HotColdOf(n) : n \in NumbersIn(HistoryGames)})

\* the score of a prediction in thousandths, -1 if it is not a finite number
Thousandths(prediction) ==
    LET score == NumberOfFixed(prediction.score)
    IN  IF score.kind = "finite" THEN roundedAt(score.value, 3) ELSE 0 - 1

\* 0.4 * (momentum / max) + 0.3 * (weightedScore / max) of the number n in
\* thousandths, times MaxTrend * MaxHotCold
TrendAndHotColdOf(n) ==
    400 * TrendOf(n) * MaxHotCold + 300 * HotColdOf(n) * MaxTrend

(***************************************************************************)
(* C23: the combined score of a number is 0.4 * (momentum / max momentum)  *)
(* + 0.3 * (gapRatio / max gapRatio) + 0.3 * (weightedScore / max          *)
(* weightedScore), each metric from its analysis with the default          *)
(* arguments; generatePredictions returns at most 10 entries, no number    *)
(* twice, with scores that do not increase, and omits no number with a     *)
(* greater score.  The gap term being between 0 and 0.3, the score printed *)
(* with three decimals is at least the sum of the two other terms and at   *)
(* most 0.3 more, within a thousandth.                                     *)
(***************************************************************************)
C23_CombinedScore ==
    (PredictionsReturned /\ NumbersIn(WindowGames(defaultWindowSize)) # {}) =>
        LET predictions == statsResult[1]
            scale == MaxTrend * MaxHotCold
        IN  /\ Len(predictions) <= topPredictions
            /\ \A i \in DOMAIN predictions :
                  /\ \E n \in NumbersIn(HistoryGames) :
                        /\ predictions[i].number = Num(n)
                        /\ (Thousandths(predictions[i]) + 1) * scale
                               >= TrendAndHotColdOf(n)
                        /\ (Thousandths(predictions[i]) - 1) * scale
                               <= TrendAndHotColdOf(n) + 300 * scale
                  /\ \A j \in DOMAIN predictions :
                        i < j => /\ predictions[i].number # predictions[j].number
                                 /\ Thousandths(predictions[i])
                                        >= Thousandths(predictions[j])
            /\ \A n \in NumbersIn(HistoryGames) :
                  (\A i \in DOMAIN predictions : predictions[i].number # Num(n)) =>
                      \A i \in DOMAIN predictions :
                          (Thousandths(predictions[i]) + 1) * scale
                              >= TrendAndHotColdOf(n)

\* one of the three sets of metrics of generatePredictions is empty
SomeMetricsEmpty ==
    \/ analyzeRecentTrends(currentData, defaultWindowSize)[1] = <<>>
    \/ analyzeNumberGaps(currentData)[1] = <<>>
    \/ analyzeHotColdPatterns(currentData, defaultRecentWeight)[1] = <<>>

(***************************************************************************)
(* C24: when one of the three sets of metrics is empty, the two others     *)
(* being empty or not, generatePredictions throws nothing and returns an   *)
(* empty list, so no entry with a score that is not a number.              *)
(***************************************************************************)
C24_EmptyMetrics ==
    (PredictionsReturned /\ SomeMetricsEmpty) =>
        /\ "generatePredictions" \notin thrown
        /\ statsResult = <<<<>>>>

\* the analyses of the history of a location
Analyses ==
    { "analyzeRecentTrends", "analyzeNumberGaps", "analyzeHotColdPatterns",
      "analyzeStreaks", "analyzeNumberCoOccurrence", "analyzeNumberCombinations",
      "generatePredictions" }

(***************************************************************************)
(* C25: when the history of the location is missing, none of the analyses  *)
(* analyzeRecentTrends, analyzeNumberGaps, analyzeHotColdPatterns,         *)
(* analyzeStreaks, analyzeNumberCoOccurrence, analyzeNumberCombinations    *)
(* and generatePredictions throws: each returns null or an empty result.   *)
(***************************************************************************)
C25_MissingHistory ==
    (statsCall \in Analyses /\ currentData = <<>>) =>
        /\ thrown = {}
        /\ statsResult \in { <<>>, <<<<>>>> }

\* no analysis changes the stored history
AnalysesKeepData ==
    [][statsCall' \in Analyses => UNCHANGED <<currentData, allData>>]_vars

\* every draw of the history has a number of 1..80
EveryDrawHasNumber ==
    /\ HistoryGames # {}
    /\ \A g \in HistoryGames : ValuesOf(g) \cap (1..totalNumbers) # {}

C30_WitnessLong ==
    /\ PredictionsReturned /\ EveryDrawHasNumber
    /\ Len(statsResult[1]) >= 2
    /\ HistoryLength > recentWindow

\* the calls that fetch the file of a type and location
FetchesOf(type, location) ==
    {c \in Calls : /\ calls[c].pc = "fetching"
                   /\ calls[c].type = type /\ calls[c].location = location}

\* the types of data with the locations they are loaded for
LoadKeys ==
    {<<"current", l>> : l \in Locations} \cup {<<"allData", l>> : l \in Locations}
        \cup {<<"payouts", "none">>}

\* the call c is made in this step
Made(c) == calls[c].pc \in {"idle", "returned"} /\ calls'[c] # calls[c]

\* the call c is made in this step while the key it loads is in the
\* loading set, or the payouts flag is set
MadeWhileLoading(c) ==
    /\ Made(c)
    /\ calls'[c].op \in {"loadCurrent", "loadAllData", "loadPayouts"}
    /\ IF calls'[c].type = "payouts" THEN loading.payouts
       ELSE calls'[c].location \in loading[calls'[c].type]

\* the call c made in this step returns the cached data at once
ServedFromCache(c) ==
    /\ ~calls'[c].forceReload
    /\ calls'[c].pc = "returned"
    /\ calls'[c].result # <<>>
    /\ calls'[c].result =
           IF calls'[c].type = "payouts" THEN cache.payouts
           ELSE cache[calls'[c].type][calls'[c].location]

(***************************************************************************)
(* C26: in every interleaving of loadCurrent, loadAllData and loadPayouts  *)
(* calls, with and without forceReload, at most one fetch of a location    *)
(* and data type is in flight; a call made while the location is in the    *)
(* loading set starts no fetch and, unless it is made without forceReload  *)
(* and served from the cache, waits for the pending load.                  *)
(***************************************************************************)
C26_NoDuplicateFetch ==
    /\ [](\A key \in LoadKeys : Cardinality(FetchesOf(key[1], key[2])) <= 1)
    /\ [][\A c \in Calls :
              MadeWhileLoading(c) =>
                  /\ calls'[c].pc # "fetching"
                  /\ loading' = loading
                  /\ calls'[c].pc = "waiting" \/ ServedFromCache(c)]_vars

\* C26 as stated: every call made while the location is in the loading set
\* waits for the pending load
C26_CallsWhileLoadingWait ==
    [][\A c \in Calls : MadeWhileLoading(c) => calls'[c].pc = "waiting"]_vars

\* a forced call waits for the fetch of another call, while data is cached
C26_Witness ==
    \E f, w \in Calls :
        /\ calls[f].pc = "fetching" /\ calls[w].pc = "waiting"
        /\ calls[w].type = calls[f].type /\ calls[w].location = calls[f].location
        /\ calls[w].forceReload
        /\ cached(calls[w].type, calls[w].location) # <<>>

\* the loading set has the keys that are fetched: a load removes its key
\* when its fetch has settled, before it returns
LoadingWhileFetching ==
    \A key \in LoadKeys : isLoading(key[1], key[2]) <=> FetchesOf(key[1], key[2]) # {}

(***************************************************************************)
(* C27: a loadCurrent or loadAllData call that waited for a pending load   *)
(* of its location resolves with the value that the call that fetched     *)
(* resolved with, the data of the file or null after a failure, also when  *)
(* data was cached before or clearCache ran meanwhile.                     *)
(***************************************************************************)
C27_WaiterGetsFetched ==
    \A c \in Calls :
        (/\ calls[c].pc = "returned"
         /\ calls[c].op \in {"loadCurrent", "loadAllData"}
         /\ calls[c].awaited # <<>>) =>
            calls[c].result = calls[c].awaited[1]

\* a call that waited has resolved with the data that the fetch gave
WaiterResolved ==
    \E c \in Calls :
        /\ calls[c].pc = "returned" /\ calls[c].awaited # <<>>
        /\ calls[c].result # <<>> /\ calls[c].result = calls[c].awaited[1]

(***************************************************************************)
(* C28: after any sequence of loadCurrent (with forceReload too),          *)
(* getNumberCounts and clearCache, cache.counts[location], when present,   *)
(* is the counts of the data in cache.current[location], and a             *)
(* getNumberCounts call that returns in a step returns the counts of that  *)
(* data.                                                                   *)
(***************************************************************************)
C28_CountsOfCurrent ==
    \A l \in Locations :
        countsCache # <<>> =>
            /\ cache.current[l] # <<>>
            /\ countsCache[1] = loaderNumberCounts(<<parsed(cache.current[l][1])>>)

(***************************************************************************)
(* C29: every load completes: a call that fetches returns, and with the    *)
(* fetches settling and the timers firing, every call that waits in        *)
(* _waitForLoad or _waitForPayoutLoad resolves, also when other calls with *)
(* forceReload go on being made.                                           *)
(***************************************************************************)
C29_EveryLoadCompletes ==
    \A c \in Calls :
        (calls[c].pc \in {"fetching", "waiting"}) ~> (calls[c].pc = "returned")

\* the part of C29 about the calls that fetch
FetchingReturns ==
    \A c \in Calls : (calls[c].pc = "fetching") ~> (calls[c].pc = "returned")

Init == InitComb \/ InitProb \/ InitPay \/ InitIngest \/ InitStats \/ InitLoad

Next == NextComb \/ NextProb \/ NextPay \/ NextIngest \/ NextStats \/ NextLoad

Spec == Init /\ [][Next]_vars
====
